---------------------------- MODULE Spec2Model ----------------------------
(***************************************************************************)
(* Model of the glyfi bot's store and handlers: the sqlite store           *)
(* (current_week, submissions, prompts), the reaction intake               *)
(* (reaction_add / reaction_remove), the announcement image and its        *)
(* confirmation interaction, and store initialisation.                     *)
(*                                                                         *)
(* Every async fn is split at the .await points where it touches shared    *)
(* state (a store statement, a Discord call, the image file); each such    *)
(* statement is one atomic step, as sqlite executes a statement.           *)
(***************************************************************************)
EXTENDS Integers, Sequences, FiniteSets, Bags, TLC

(***************************************************************************)
(* Bounds of the model.                                                    *)
(***************************************************************************)
NumHandlers == 2      \* reaction handlers that can be in flight at once
MaxWeek == 1          \* the current week is advanced at most up to here
MaxInitRuns == 2      \* runs of each initialiser (process restarts)
NumCommands == 2      \* queue commands that can be in flight at once
MaxCommands == 2      \* queue commands invoked in one run
MaxClock == 2         \* the clock stops after this many ticks
MaxKinds == 3         \* weeks whose kind is set in one run
MaxTriggers == 2      \* calls of terminate() in one run

(***************************************************************************)
(* Program constants.                                                      *)
(***************************************************************************)
Glyph == 0
Ambigram == 1
Challenges == {Glyph, Ambigram}

\* channel ids of server_data, as small numbers; 9 is any other channel
GLYPH_SUBMISSION_CHANNEL_ID == 7
AMBIGRAM_SUBMISSION_CHANNEL_ID == 8
OTHER_CHANNEL_ID == 9

\* emoji of a reaction: the custom submit emoji, or anything else
SUBMIT_EMOJI_ID == 5
OTHER_EMOJI_ID == 6

\* resolution of the clock and of file modification times: ticks per second
TicksPerSecond == 2

\* [repr(u8)] values of InteractionID
ConfirmAnnouncement == 0
CancelAnnouncement == 1

PromptTexts == {"a", "b"}

\* [repr(u8)] values of Week
Regular == 0
Special == 1
Extended == 2
WeekKinds == {Regular, Special, Extended}

NoUser == 0
Users == {1, 2}

(***************************************************************************)
(* The messages of the run: what r.message(&ctx) returns for each message  *)
(* id.  An attachment is modelled by whether it has a height.              *)
(***************************************************************************)
Image == [height |-> TRUE]
File == [height |-> FALSE]
Messages ==
    << [id |-> 1, channel_id |-> GLYPH_SUBMISSION_CHANNEL_ID,    author |-> 1, attachments |-> <<Image>>],
       [id |-> 2, channel_id |-> AMBIGRAM_SUBMISSION_CHANNEL_ID, author |-> 2, attachments |-> <<Image>>],
       [id |-> 3, channel_id |-> GLYPH_SUBMISSION_CHANNEL_ID,    author |-> 2, attachments |-> <<>>],
       [id |-> 4, channel_id |-> AMBIGRAM_SUBMISSION_CHANNEL_ID, author |-> 1, attachments |-> <<File>>],
       [id |-> 5, channel_id |-> OTHER_CHANNEL_ID,               author |-> 1, attachments |-> <<Image>>],
       [id |-> 6, channel_id |-> GLYPH_SUBMISSION_CHANNEL_ID,    author |-> 2, attachments |-> <<Image, Image>>] >>
MessageIds == 1..Len(Messages)

\* att.url of the single attachment of a message
AttachmentUrl(m) == 100 + m

VARIABLES
    tables,          \* names of the tables that exist in glyfi.db
    cw_trigger,      \* the trigger current_week_insertion exists
    submissions_pk,  \* primary key of the submissions table: "none" | "composite" | "message"
    current_week,    \* rows of table current_week (sequence of week numbers)
    submissions,     \* rows of table submissions (a bag: a table has no order)
    confirms,        \* messages that carry the bot's confirmation reaction
    handlers,        \* the reaction handlers in flight
    reported,        \* the errors reported to users: <<user, text>>
    last,            \* history: per message, the last submissions statement applied
    inits,           \* the initialisers: position and number of runs
    clock,           \* system time, in ticks of 1/TicksPerSecond s
    image_mtime,     \* per image path: modification time of the file in ticks, -1 if no file
    image_gen,       \* history: per image path, how often the image was generated
    prompts,         \* rows of table prompts, each with its rowid
    commands,        \* the queue commands in flight
    ncommands,       \* number of queue commands invoked so far
    tokens,          \* the confirm button ids handed out, each with the generation it was made for
    interaction,     \* the component interaction handled in the step just taken, and its outcome
    reply,           \* the reply a command sent in the step just taken
    qhist,           \* history: the rowids add_prompt returned and those delete_prompt removed
    users,           \* rows of table users, by id
    week_kinds,      \* the kind of each week from week 0 on (table weeks)
    due,             \* the last classification: the week and what is due at its start
    runtime,         \* the process: TERMINATION_LOCK, the shards, the pool, whether it has exited
    terminators,     \* the calls of terminate() in flight
    deleted          \* history: the reactions the bot has deleted, as <<user, message>>

confirmVars == <<clock, image_mtime, image_gen, prompts, commands, ncommands,
                 tokens, interaction, reply, qhist, users, week_kinds, due,
                 runtime, terminators, deleted>>

processVars == <<runtime, terminators, deleted>>

vars == <<tables, cw_trigger, submissions_pk, current_week, submissions,
          confirms, handlers, reported, last, inits, confirmVars>>

storeVars == <<tables, cw_trigger, submissions_pk, current_week, submissions>>

\* what the queue, the image, the users and the weeks hold: all of
\* confirmVars but what the step just taken sent
restVars == <<clock, image_mtime, image_gen, prompts, commands, ncommands,
              tokens, qhist, users, week_kinds, due, processVars>>

\* no reply was sent in the step
NoReply == [cmd |-> "none", ok |-> TRUE, text |-> "", items |-> <<>>]

NoInteraction == [custom_id |-> <<>>, gen |-> -1, outcome |-> "none", response |-> "none"]

(***************************************************************************)
(* Week kinds and what is due at the start of a week.                      *)
(***************************************************************************)

\* the classification that lets an extended week also hold back the hall
\* of fame of the week after it
classify_cascade(k2, k1, k0) ==
    [AnnounceDue |-> ~(k1 = Extended \/ k0 = Special),
     PanelDue |-> ~(k1 = Extended \/ k1 = Special),
     HallOfFameDue |-> ~(k2 = Extended \/ k1 = Extended)]

\* classify(kind(w-2), kind(w-1), kind(w)): announce unless the last week was
\* extended or this week is special; panel unless the last week was extended
\* or special; top three unless the week before the last was extended
classify(k2, k1, k0) ==
    [AnnounceDue |-> ~(k1 = Extended \/ k0 = Special),
     PanelDue |-> ~(k1 = Extended \/ k1 = Special),
     HallOfFameDue |-> ~(k2 = Extended)]

\* the lookup that takes the weeks before week 0 for extended ones
KindOfNoHistory(kinds, w) == IF w < 0 THEN Extended ELSE kinds[w + 1]

\* kind(w): the kind of week w, Regular for the weeks before week 0
KindOf(kinds, w) == IF w < 0 THEN Regular ELSE kinds[w + 1]

NoDue == [week |-> -1, AnnounceDue |-> FALSE, PanelDue |-> FALSE, HallOfFameDue |-> FALSE]

\* the kind of the next week is entered in table weeks
SetWeekKind(kind) ==
    /\ Len(week_kinds) < MaxKinds
    /\ week_kinds' = Append(week_kinds, kind)
    /\ UNCHANGED <<tables, cw_trigger, submissions_pk, current_week, submissions,
                   confirms, handlers, reported, last, inits,
                   clock, image_mtime, image_gen, prompts, commands, ncommands,
                   tokens, interaction, reply, qhist, users, due,
                   processVars>>

\* the start of week w: what is due is classified from the kinds of w-2, w-1, w
StartOfWeek(w) ==
    /\ w < Len(week_kinds)
    /\ LET flags == classify(KindOf(week_kinds, w - 2), KindOf(week_kinds, w - 1),
                             KindOf(week_kinds, w))
       IN  due' = [week |-> w, AnnounceDue |-> flags.AnnounceDue,
                   PanelDue |-> flags.PanelDue, HallOfFameDue |-> flags.HallOfFameDue]
    /\ UNCHANGED <<tables, cw_trigger, submissions_pk, current_week, submissions,
                   confirms, handlers, reported, last, inits,
                   clock, image_mtime, image_gen, prompts, commands, ncommands,
                   tokens, interaction, reply, qhist, users, week_kinds,
                   processVars>>

(***************************************************************************)
(* The process: the shards that dispatch events, the connection pool and   *)
(* the termination lock.                                                   *)
(***************************************************************************)
\* the process once main has initialised the store and started the client
Started == [lock |-> FALSE, shards |-> "up", pool |-> "open", closes |-> 0,
            triggers |-> 0, exited |-> FALSE, orphans |-> EmptyBag]

\* events and commands are dispatched while the shards run
Dispatching == runtime.shards = "up" /\ ~runtime.exited

\* pool(): a statement on a closed pool is an Err (PoolClosed)
PoolClosed == runtime.pool = "closed"

(***************************************************************************)
(* Store statements.                                                       *)
(***************************************************************************)

\* SELECT week FROM current_week LIMIT 1, fetch_one: -1 is the error for no row
current_week_query(tbl) == IF Len(tbl) = 0 THEN -1 ELSE tbl[1]

\* the rows of a table with this message, week and challenge
KeyRows(tbl, message, week, challenge) ==
    {r \in BagToSet(tbl) : /\ r.message = message
                           /\ r.week = week
                           /\ r.challenge = challenge}

\* the number of rows of a table among the given ones
CountRows(tbl, rows) == BagCardinality([r \in rows |-> tbl[r]])

\* the table without the given rows
WithoutRows(tbl, rows) == [r \in BagToSet(tbl) \ rows |-> tbl[r]]

\* does the primary key of the table reject this row?
PrimaryKeyConflict(tbl, pk, row) ==
    \E r \in BagToSet(tbl) :
        IF pk = "message"
        THEN r.message = row.message
        ELSE /\ r.message = row.message
             /\ r.week = row.week
             /\ r.challenge = row.challenge

\* the insert without the primary key
InsertSubmissionUnchecked(tbl, pk, row) ==
    [ok |-> TRUE, tbl |-> tbl (+) SetToBag({row})]

\* INSERT INTO submissions (...) VALUES (...): the new table, or a constraint error
InsertSubmission(tbl, pk, row) ==
    IF PrimaryKeyConflict(tbl, pk, row)
    THEN [ok |-> FALSE, tbl |-> tbl]
    ELSE [ok |-> TRUE, tbl |-> tbl (+) SetToBag({row})]

\* the delete without the week in its WHERE clause
DeleteSubmissionAnyWeek(tbl, message, week, challenge) ==
    WithoutRows(tbl, {r \in BagToSet(tbl) : r.message = message /\ r.challenge = challenge})

\* the delete with a WHERE clause that matches no row of the message
DeleteSubmissionNoMatch(tbl, message, week, challenge) ==
    WithoutRows(tbl, KeyRows(tbl, message, week, 1 - challenge))

\* DELETE FROM submissions WHERE message = ? AND week = ? AND challenge = ?
DeleteSubmission(tbl, message, week, challenge) ==
    WithoutRows(tbl, KeyRows(tbl, message, week, challenge))

\* the insert of the row with no trigger in the way
InsertCurrentWeekReplace(tbl, trigger, week) == <<week>>

InsertCurrentWeekUnguarded(tbl, trigger, week) == Append(tbl, week)

\* INSERT OR IGNORE INTO current_week (week) VALUES (0), behind the trigger
\* current_week_insertion: BEFORE INSERT, WHEN COUNT(*) > 0, RAISE(ABORT)
InsertCurrentWeek(tbl, trigger, week) ==
    IF trigger /\ Len(tbl) > 0 THEN tbl ELSE Append(tbl, week)

(***************************************************************************)
(* Reaction intake.                                                        *)
(***************************************************************************)
Reactions == [emoji : {SUBMIT_EMOJI_ID, OTHER_EMOJI_ID},
              user_id : Users \cup {NoUser},
              message : MessageIds]

\* the submit reaction of the author on the well-formed submission 1
SubmitReactions == {r \in Reactions :
                       /\ r.emoji = SUBMIT_EMOJI_ID
                       /\ r.message = 1
                       /\ r.user_id = Messages[r.message].author}

\* the row add_submission writes for a message in a week
SubmissionRow(m, week, challenge) ==
    [message |-> m, week |-> week, challenge |-> challenge,
     author |-> Messages[m].author, link |-> AttachmentUrl(m)]

\* the ledgers a run starts from: empty, or with the submission 2 of week 0
StartLedgers == {EmptyBag, SetToBag({SubmissionRow(2, 0, Ambigram)})}

\* the matcher that takes every submission channel for the Glyph channel
match_relevant_reaction_event_one_challenge(r) ==
    IF r.emoji # SUBMIT_EMOJI_ID THEN -1
    ELSE IF r.user_id = NoUser THEN -1
    ELSE IF Messages[r.message].channel_id = GLYPH_SUBMISSION_CHANNEL_ID THEN Glyph
    ELSE IF Messages[r.message].channel_id = AMBIGRAM_SUBMISSION_CHANNEL_ID THEN Glyph
    ELSE -1

\* match_relevant_reaction_event: the challenge, or -1 for None
match_relevant_reaction_event(r) ==
    IF r.emoji # SUBMIT_EMOJI_ID THEN -1
    ELSE IF r.user_id = NoUser THEN -1
    ELSE IF Messages[r.message].channel_id = GLYPH_SUBMISSION_CHANNEL_ID THEN Glyph
    ELSE IF Messages[r.message].channel_id = AMBIGRAM_SUBMISSION_CHANNEL_ID THEN Ambigram
    ELSE -1

\* a handler task is spawned for an event while fewer than NumHandlers run
CanSpawn == Dispatching /\ BagCardinality(handlers) < NumHandlers

\* is hd one of the handler tasks in flight?
Running(hd) == BagIn(hd, handlers)

\* the handler tasks when hd has moved on to position pc
Goes(hd, to) == (handlers (-) SetToBag({hd})) (+) SetToBag({to})

\* the handler tasks when hd has returned
Returns(hd) == handlers (-) SetToBag({hd})

\* run!: the error is logged and reported to the user (report_user_error);
\* text is the $msg of the call
RunError(user, text) == reported' = reported \cup {<<user, text>>}

\* history record of a message: the last statement on submissions for it
\*   op    "insert" (succeeded), "conflict" (insert rejected) or "delete"
\*   week  the week the statement was bound to
\*   hit   the statement found a row with its key
\*   chain 1: a successful insert; 2: then deleted in the same week;
\*         3: then inserted again in the same week; 0: anything else
NoLast == [op |-> "none", week |-> -1, hit |-> FALSE, chain |-> 0]

\* the week current_week() would return now
Week == IF PoolClosed THEN -1 ELSE current_week_query(current_week)

\* the intake that lets anybody submit a message
ReactionAddAnyUser(r) ==
    /\ CanSpawn
    /\ LET challenge == match_relevant_reaction_event(r)
           message == Messages[r.message]
           start(pc) == [kind |-> "add", pc |-> pc, user |-> r.user_id,
                         message |-> r.message, challenge |-> challenge,
                         week |-> -1, issued |-> Week]
       IN  handlers' =
               IF challenge = -1 THEN handlers
               ELSE IF Len(message.attachments) # 1 THEN handlers (+) SetToBag({start("reject_count")})
               ELSE IF ~message.attachments[1].height THEN handlers (+) SetToBag({start("reject_image")})
               ELSE handlers (+) SetToBag({start("current_week")})
    /\ reply' = NoReply /\ interaction' = NoInteraction
    /\ UNCHANGED <<storeVars, confirms, reported, last, inits, restVars>>

\* the intake that takes any single attachment for an image
ReactionAddAnyAttachment(r) ==
    /\ CanSpawn
    /\ LET challenge == match_relevant_reaction_event(r)
           message == Messages[r.message]
           start(pc) == [kind |-> "add", pc |-> pc, user |-> r.user_id,
                         message |-> r.message, challenge |-> challenge,
                         week |-> -1, issued |-> Week]
       IN  handlers' =
               IF challenge = -1 THEN handlers
               ELSE IF r.user_id # message.author THEN handlers (+) SetToBag({start("remove_foreign")})
               ELSE IF Len(message.attachments) # 1 THEN handlers (+) SetToBag({start("reject_count")})
               ELSE handlers (+) SetToBag({start("current_week")})
    /\ reply' = NoReply /\ interaction' = NoInteraction
    /\ UNCHANGED <<storeVars, confirms, reported, last, inits, restVars>>

\* reaction_add up to the call of add_submission
ReactionAdd(r) ==
    /\ CanSpawn
    /\ LET challenge == match_relevant_reaction_event(r)
           message == Messages[r.message]
           start(pc) == [kind |-> "add", pc |-> pc, user |-> r.user_id,
                         message |-> r.message, challenge |-> challenge,
                         week |-> -1, issued |-> Week]
       IN  handlers' =
               IF challenge = -1 THEN handlers
               ELSE IF r.user_id # message.author THEN handlers (+) SetToBag({start("remove_foreign")})
               ELSE IF Len(message.attachments) # 1 THEN handlers (+) SetToBag({start("reject_count")})
               ELSE IF ~message.attachments[1].height THEN handlers (+) SetToBag({start("reject_image")})
               ELSE handlers (+) SetToBag({start("current_week")})
    /\ reply' = NoReply /\ interaction' = NoInteraction
    /\ UNCHANGED <<storeVars, confirms, reported, last, inits, restVars>>

\* add_submission: .bind(current_week().await?)
add_submission_current_week(hd) ==
    /\ Running(hd)
    /\ hd.kind = "add"
    /\ hd.pc = "current_week"
    /\ IF Week = -1
       THEN /\ handlers' = Returns(hd)
            /\ RunError(hd.user, "Error adding submission")
       ELSE /\ handlers' = Goes(hd, [hd EXCEPT !.pc = "insert", !.week = Week])
            /\ UNCHANGED reported
    /\ reply' = NoReply /\ interaction' = NoInteraction
    /\ UNCHANGED <<storeVars, confirms, last, inits, restVars>>

\* add_submission: the INSERT, then run! on its result
add_submission(hd) ==
    /\ Running(hd)
    /\ hd.kind = "add"
    /\ hd.pc = "insert"
    /\ LET row == [message |-> hd.message, week |-> hd.week,
                   challenge |-> hd.challenge, author |-> hd.user,
                   link |-> AttachmentUrl(hd.message)]
           res == IF PoolClosed THEN [ok |-> FALSE, tbl |-> submissions]
                  ELSE InsertSubmission(submissions, submissions_pk, row)
       IN  /\ submissions' = res.tbl
           /\ IF res.ok
              THEN /\ handlers' = Goes(hd, [hd EXCEPT !.pc = "react"])
                   /\ UNCHANGED reported
              ELSE /\ handlers' = Returns(hd)
                   /\ RunError(hd.user, "Error adding submission")
           /\ last' = [last EXCEPT ![hd.message] =
                  [op |-> IF res.ok THEN "insert" ELSE "conflict",
                   week |-> hd.week,
                   hit |-> KeyRows(submissions, hd.message, hd.week, hd.challenge) # {},
                   chain |-> IF ~res.ok THEN 0
                             ELSE IF @.chain = 2 /\ @.week = hd.week THEN 3 ELSE 1]]
    /\ reply' = NoReply /\ interaction' = NoInteraction
    /\ UNCHANGED <<tables, cw_trigger, submissions_pk, current_week, confirms, inits, restVars>>

\* reaction_add: message.react(ctx, confirm_reaction())
ReactionAddConfirm(hd) ==
    /\ Running(hd)
    /\ hd.kind = "add"
    /\ hd.pc = "react"
    /\ confirms' = confirms \cup {hd.message}
    /\ handlers' = Returns(hd)
    /\ reply' = NoReply /\ interaction' = NoInteraction
    /\ UNCHANGED <<storeVars, reported, last, inits, restVars>>

\* reaction_add: report_user_error for a message that is no submission
report_user_error(hd) ==
    /\ Running(hd)
    /\ hd.kind = "add"
    /\ hd.pc \in {"reject_count", "reject_image"}
    /\ reported' = reported \cup
           {<<hd.user, IF hd.pc = "reject_count"
                       THEN "Submissions must contain exactly one image"
                       ELSE "Submissions must contain only images">>}
    /\ handlers' = Goes(hd, [hd EXCEPT !.pc = "remove_reaction"])
    /\ reply' = NoReply /\ interaction' = NoInteraction
    /\ UNCHANGED <<storeVars, confirms, last, inits, restVars>>

\* reaction_add: remove_reaction!: r.delete(&ctx), then return
remove_reaction(hd) ==
    /\ Running(hd)
    /\ hd.kind = "add"
    /\ hd.pc \in {"remove_foreign", "remove_reaction"}
    /\ deleted' = deleted \cup {<<hd.user, hd.message>>}
    /\ handlers' = Returns(hd)
    /\ reply' = NoReply /\ interaction' = NoInteraction
    /\ UNCHANGED <<storeVars, confirms, reported, last, inits,
                   clock, image_mtime, image_gen, prompts, commands, ncommands,
                   tokens, qhist, users, week_kinds, due, runtime, terminators>>

\* reaction_remove up to the call of remove_submission
ReactionRemove(r) ==
    /\ CanSpawn
    /\ LET challenge == match_relevant_reaction_event(r)
           message == Messages[r.message]
       IN  handlers' =
               IF challenge = -1 THEN handlers
               ELSE IF r.user_id # message.author THEN handlers
               ELSE handlers (+) SetToBag({[kind |-> "remove", pc |-> "current_week",
                                            user |-> r.user_id, message |-> r.message,
                                            challenge |-> challenge,
                                            week |-> -1, issued |-> Week]})
    /\ reply' = NoReply /\ interaction' = NoInteraction
    /\ UNCHANGED <<storeVars, confirms, reported, last, inits, restVars>>

\* remove_submission: .bind(current_week().await?)
remove_submission_current_week(hd) ==
    /\ Running(hd)
    /\ hd.kind = "remove"
    /\ hd.pc = "current_week"
    /\ IF Week = -1
       THEN /\ handlers' = Returns(hd)
            /\ RunError(hd.user, "Error removing submission")
       ELSE /\ handlers' = Goes(hd, [hd EXCEPT !.pc = "delete", !.week = Week])
            /\ UNCHANGED reported
    /\ reply' = NoReply /\ interaction' = NoInteraction
    /\ UNCHANGED <<storeVars, confirms, last, inits, restVars>>

\* remove_submission: the DELETE; its result is Ok whatever it deleted
remove_submission(hd) ==
    /\ Running(hd)
    /\ hd.kind = "remove"
    /\ hd.pc = "delete"
    /\ IF PoolClosed
       THEN /\ handlers' = Returns(hd)
            /\ RunError(hd.user, "Error removing submission")
            /\ UNCHANGED <<submissions, last>>
       ELSE /\ submissions' = DeleteSubmission(submissions, hd.message, hd.week, hd.challenge)
            /\ handlers' = Goes(hd, [hd EXCEPT !.pc = "unreact"])
            /\ last' = [last EXCEPT ![hd.message] =
                   [op |-> "delete", week |-> hd.week,
                    hit |-> KeyRows(submissions, hd.message, hd.week, hd.challenge) # {},
                    chain |-> IF @.chain \in {1, 2, 3} /\ @.week = hd.week THEN 2 ELSE 0]]
            /\ UNCHANGED reported
    /\ reply' = NoReply /\ interaction' = NoInteraction
    /\ UNCHANGED <<tables, cw_trigger, submissions_pk, current_week, confirms,
                   inits, restVars>>

\* reaction_remove: message.delete_reaction(ctx, Some(me), confirm_reaction())
ReactionRemoveUnconfirm(hd) ==
    /\ Running(hd)
    /\ hd.kind = "remove"
    /\ hd.pc = "unreact"
    /\ confirms' = confirms \ {hd.message}
    /\ handlers' = Returns(hd)
    /\ reply' = NoReply /\ interaction' = NoInteraction
    /\ UNCHANGED <<storeVars, reported, last, inits, restVars>>

\* the current week is set by hand: UPDATE current_week SET week = week + 1
AdvanceWeek ==
    /\ Len(current_week) = 1
    /\ current_week[1] < MaxWeek
    /\ current_week' = <<current_week[1] + 1>>
    /\ reply' = NoReply /\ interaction' = NoInteraction
    /\ UNCHANGED <<tables, cw_trigger, submissions_pk, submissions,
                   confirms, handlers, reported, last, inits, restVars>>

(***************************************************************************)
(* The announcement image, the queue commands that generate it, and the    *)
(* confirmation interaction.                                               *)
(***************************************************************************)

\* Challenge::announcement_image_path
announcement_image_path(challenge) ==
    IF challenge = Glyph THEN "./weekly_challenges/glyph_announcement.png"
    ELSE "./weekly_challenges/ambigram_announcement.png"

ImagePaths == {announcement_image_path(c) : c \in Challenges}

\* file_mtime: the modification time in whole seconds, -1 for an Err
file_mtime(path) ==
    IF image_mtime[path] = -1 THEN -1 ELSE image_mtime[path] \div TicksPerSecond

\* the numbers a field of a custom id can spell
U64Values == 0..9

\* str::parse::<u64>: -1 for an Err
parse_u64(s) ==
    IF \E n \in U64Values : ToString(n) = s
    THEN CHOOSE n \in U64Values : ToString(n) = s
    ELSE -1

\* impl FromStr for Challenge: -1 for an Err
parse_Challenge(s) ==
    IF s = "0" THEN Glyph ELSE IF s = "1" THEN Ambigram ELSE -1

\* impl FromStr for InteractionID, on the fields of s.split(':'): -1 for an Err
parse_InteractionID(custom_id) ==
    IF custom_id[1] = "0" THEN ConfirmAnnouncement
    ELSE IF custom_id[1] = "1" THEN CancelAnnouncement
    ELSE -1

\* the custom id of the Confirm button of queue_add, split at ':'
ConfirmButtonId(challenge, mtime, id) ==
    <<ToString(ConfirmAnnouncement), ToString(challenge), ToString(mtime), ToString(id)>>

\* the confirmation that compares nothing
act_on_confirm_announcement_unchecked(custom_id) ==
    IF Len(custom_id) < 2 THEN "Error"
    ELSE IF parse_Challenge(custom_id[2]) = -1 THEN "Error"
    ELSE IF Len(custom_id) < 3 THEN "Error"
    ELSE IF parse_u64(custom_id[3]) = -1 THEN "Error"
    ELSE "Confirmed"

\* act_on_confirm_announcement: "Error" for an Err, "Stale" for the Ok(())
\* of an outdated image, "Confirmed" when the response is sent
act_on_confirm_announcement(custom_id) ==
    IF Len(custom_id) < 2 THEN "Error"
    ELSE IF parse_Challenge(custom_id[2]) = -1 THEN "Error"
    ELSE IF Len(custom_id) < 3 THEN "Error"
    ELSE IF parse_u64(custom_id[3]) = -1 THEN "Error"
    ELSE LET mtime == file_mtime(announcement_image_path(parse_Challenge(custom_id[2])))
         IN  IF mtime = -1 THEN "Error"
             ELSE IF parse_u64(custom_id[3]) # mtime THEN "Stale"
             ELSE "Confirmed"

\* interaction_create for a component interaction; gen is the generation of
\* the image the payload was handed out for, -1 if it was not handed out
interaction_create(payload) ==
    /\ Dispatching
    /\ LET id == parse_InteractionID(payload.custom_id)
           outcome == IF id = -1 THEN "UnknownID"
                      ELSE IF id = ConfirmAnnouncement
                           THEN act_on_confirm_announcement(payload.custom_id)
                      ELSE "NoHandler"
       IN  interaction' = [custom_id |-> payload.custom_id,
                           gen |-> payload.gen,
                           outcome |-> outcome,
                           response |-> CASE outcome = "Confirmed" -> "Confirmed."
                                          [] outcome = "Error" -> "Error processing interaction"
                                          [] outcome = "UnknownID" -> "Error: Unknown ID"
                                          [] OTHER -> "none"]
    \* the history of confirmed tokens is kept where a specification starts one
    /\ qhist' = IF "confirmed" \in DOMAIN qhist
                    /\ parse_InteractionID(payload.custom_id) = ConfirmAnnouncement
                    /\ act_on_confirm_announcement(payload.custom_id) = "Confirmed"
                 THEN [qhist EXCEPT !.confirmed = @ \cup {payload.custom_id}]
                 ELSE qhist
    /\ reply' = NoReply
    /\ UNCHANGED <<storeVars, confirms, handlers, reported, last, inits, users, week_kinds, due,
                   clock, image_mtime, image_gen, prompts, commands, ncommands, tokens,
                   processVars>>

\* a command task is spawned while fewer than NumCommands run
CanInvoke ==
    Dispatching /\ BagCardinality(commands) < NumCommands /\ ncommands < MaxCommands

\* the command tasks when cmd has moved on to position pc
CommandGoes(cmd, to) == (commands (-) SetToBag({cmd})) (+) SetToBag({to})

\* the command tasks when cmd has returned
CommandReturns(cmd) == commands (-) SetToBag({cmd})

\* rowid of a row inserted into a table without INTEGER PRIMARY KEY
NextRowid(tbl) ==
    IF Len(tbl) = 0 THEN 1
    ELSE 1 + CHOOSE n \in {tbl[i].rowid : i \in 1..Len(tbl)} :
                 \A i \in 1..Len(tbl) : tbl[i].rowid <= n

\* queue_add: defer_ephemeral and the spawn of the generator
queue_add(challenge, prompt) ==
    /\ CanInvoke
    /\ ncommands' = ncommands + 1
    /\ commands' = commands (+) SetToBag({
           [kind |-> "queue_add", pc |-> "generate", challenge |-> challenge,
            prompt |-> prompt, id |-> 0]})
    /\ reply' = NoReply
    /\ interaction' = NoInteraction
    /\ UNCHANGED <<storeVars, confirms, handlers, reported, last, inits, qhist, users, week_kinds, due,
                   clock, image_mtime, image_gen, prompts, tokens,
                   processVars>>

\* get_prompt: the entries with this rowid
PromptsWithId(id) == {i \in 1..Len(prompts) : prompts[i].rowid = id}

\* impl From<i64> for Challenge: -1 for the panic
Challenge_from(i) == IF i = 0 THEN Glyph ELSE IF i = 1 THEN Ambigram ELSE -1

\* the lookup that answers with a default entry when there is no row
get_prompt_default(tbl, id) ==
    IF \A i \in 1..Len(tbl) : tbl[i].rowid # id
    THEN [status |-> "Ok", challenge |-> Glyph, prompt |-> ""]
    ELSE LET entry == tbl[CHOOSE i \in 1..Len(tbl) : tbl[i].rowid = id]
         IN  [status |-> "Ok", challenge |-> Challenge_from(entry.challenge),
              prompt |-> entry.prompt]

\* get_prompt: SELECT challenge, prompt FROM prompts WHERE rowid = ? LIMIT 1,
\* "NotFound" for the Err of no row, "Panic" for a challenge From<i64> rejects
get_prompt(tbl, id) ==
    IF \A i \in 1..Len(tbl) : tbl[i].rowid # id
    THEN [status |-> "NotFound", challenge |-> -1, prompt |-> ""]
    ELSE LET entry == tbl[CHOOSE i \in 1..Len(tbl) : tbl[i].rowid = id]
         IN  IF Challenge_from(entry.challenge) = -1
             THEN [status |-> "Panic", challenge |-> -1, prompt |-> ""]
             ELSE [status |-> "Ok", challenge |-> Challenge_from(entry.challenge),
                   prompt |-> entry.prompt]

\* handle_command_error: the reply that carries the error of a command
ErrorReply(cmd, text) == [cmd |-> cmd, ok |-> FALSE, text |-> text, items |-> <<>>]

\* queue_show: defer_ephemeral, get_prompt and the spawn of the generator
queue_show(id) ==
    /\ CanInvoke
    /\ ncommands' = ncommands + 1
    /\ LET entry == get_prompt(prompts, id)
       IN  IF entry.status = "Ok"
           THEN /\ commands' = commands (+) SetToBag({
                        [kind |-> "queue_show", pc |-> "generate",
                         challenge |-> entry.challenge, prompt |-> entry.prompt,
                         id |-> id]})
                /\ reply' = NoReply
           ELSE /\ commands' = commands
                /\ reply' = [ErrorReply("queue_show", entry.status) EXCEPT !.items = <<id>>]
    /\ interaction' = NoInteraction
    /\ UNCHANGED <<storeVars, confirms, handlers, reported, last, inits, qhist, users, week_kinds, due,
                   clock, image_mtime, image_gen, prompts, tokens,
                   processVars>>

\* the generator whose failure the command does not look at
generate_challenge_image_unchecked(cmd, success) ==
    /\ BagIn(cmd, commands)
    /\ cmd.pc = "generate"
    /\ success => clock > image_mtime[announcement_image_path(cmd.challenge)]
    /\ LET path == announcement_image_path(cmd.challenge)
       IN  /\ image_mtime' = IF success THEN [image_mtime EXCEPT ![path] = clock] ELSE image_mtime
           /\ image_gen' = IF success THEN [image_gen EXCEPT ![path] = @ + 1] ELSE image_gen
           /\ commands' = CommandGoes(cmd, [cmd EXCEPT !.pc =
                  IF cmd.kind = "queue_add" THEN "add_prompt" ELSE "reply"])
           /\ reply' = NoReply
    /\ interaction' = NoInteraction
    /\ UNCHANGED <<storeVars, confirms, handlers, reported, last, inits, qhist, users, week_kinds, due,
                   clock, prompts, ncommands, tokens,
                   processVars>>

\* generate_challenge_image: the generator exits; on success it has written
\* the image of the challenge.  A tick is short enough that two writes of a
\* file never fall into the same tick.
generate_challenge_image(cmd, success) ==
    /\ BagIn(cmd, commands)
    /\ cmd.pc = "generate"
    /\ success => clock > image_mtime[announcement_image_path(cmd.challenge)]
    /\ LET path == announcement_image_path(cmd.challenge)
       IN  IF success
           THEN /\ image_mtime' = [image_mtime EXCEPT ![path] = clock]
                /\ image_gen' = [image_gen EXCEPT ![path] = @ + 1]
                /\ commands' = CommandGoes(cmd, [cmd EXCEPT !.pc =
                       IF cmd.kind = "queue_add" THEN "add_prompt" ELSE "reply"])
                /\ reply' = NoReply
           ELSE /\ commands' = CommandReturns(cmd)
                /\ reply' = ErrorReply(cmd.kind, "Failed to generate image")
                /\ UNCHANGED <<image_mtime, image_gen>>
    /\ interaction' = NoInteraction
    /\ UNCHANGED <<storeVars, confirms, handlers, reported, last, inits, qhist, users, week_kinds, due,
                   clock, prompts, ncommands, tokens,
                   processVars>>

\* add_prompt: INSERT INTO prompts (challenge, prompt) VALUES (?, ?) RETURNING rowid
add_prompt(cmd) ==
    /\ BagIn(cmd, commands)
    /\ cmd.pc = "add_prompt"
    /\ IF PoolClosed
       THEN /\ commands' = CommandReturns(cmd)
            /\ reply' = ErrorReply(cmd.kind, "PoolClosed")
            /\ UNCHANGED <<prompts, qhist>>
       ELSE /\ prompts' = Append(prompts, [rowid |-> NextRowid(prompts),
                                           challenge |-> cmd.challenge,
                                           prompt |-> cmd.prompt])
            /\ commands' = CommandGoes(cmd, [cmd EXCEPT !.pc = "reply",
                                                        !.id = NextRowid(prompts)])
            /\ qhist' = [qhist EXCEPT !.handed = @ \cup {NextRowid(prompts)}]
            /\ reply' = NoReply
    /\ interaction' = NoInteraction
    /\ UNCHANGED <<storeVars, confirms, handlers, reported, last, inits, users, week_kinds, due,
                   clock, image_mtime, image_gen, ncommands, tokens,
                   processVars>>

\* queue_add: file_mtime of the image and the reply that carries the buttons
queue_add_reply(cmd, sent) ==
    /\ BagIn(cmd, commands)
    /\ cmd.kind = "queue_add"
    /\ cmd.pc = "reply"
    /\ LET path == announcement_image_path(cmd.challenge)
           mtime == file_mtime(path)
       IN  /\ tokens' = IF mtime # -1 /\ sent
                     THEN tokens \cup
                              {[custom_id |-> ConfirmButtonId(cmd.challenge, mtime, cmd.id),
                                gen |-> image_gen[path]]}
                     ELSE tokens
           /\ reply' = IF mtime = -1 THEN ErrorReply("queue_add", "file_mtime")
                        ELSE IF ~sent THEN ErrorReply("queue_add", "send")
                        ELSE [cmd |-> "queue_add", ok |-> TRUE, text |-> path, items |-> <<>>]
    /\ commands' = CommandReturns(cmd)
    /\ interaction' = NoInteraction
    /\ UNCHANGED <<storeVars, confirms, handlers, reported, last, inits, qhist, users, week_kinds, due,
                   clock, image_mtime, image_gen, prompts, ncommands,
                   processVars>>

\* queue_show: the reply with the image
queue_show_reply(cmd, sent) ==
    /\ BagIn(cmd, commands)
    /\ cmd.kind = "queue_show"
    /\ cmd.pc = "reply"
    /\ commands' = CommandReturns(cmd)
    /\ reply' = IF ~sent THEN ErrorReply("queue_show", "send")
                 ELSE [cmd |-> "queue_show", ok |-> TRUE,
                       text |-> announcement_image_path(cmd.challenge), items |-> <<>>]
    /\ interaction' = NoInteraction
    /\ UNCHANGED <<storeVars, confirms, handlers, reported, last, inits, qhist, users, week_kinds, due,
                   clock, image_mtime, image_gen, prompts, ncommands, tokens,
                   processVars>>

\* delete_prompt: DELETE FROM prompts WHERE rowid = ?, rows_affected() > 0
delete_prompt(tbl, id) ==
    [changed |-> \E i \in 1..Len(tbl) : tbl[i].rowid = id,
     tbl |-> SelectSeq(tbl, LAMBDA r : r.rowid # id)]

\* the listing in descending order
get_prompts_desc(tbl, challenge) ==
    LET rows == SortSeq(SelectSeq(tbl, LAMBDA r : r.challenge = challenge),
                        LAMBDA a, b : a.rowid > b.rowid)
    IN  [i \in 1..Len(rows) |-> <<rows[i].rowid, rows[i].prompt>>]

\* get_prompts: SELECT rowid, prompt FROM prompts WHERE challenge = ? ORDER BY rowid ASC
get_prompts(tbl, challenge) ==
    LET rows == SortSeq(SelectSeq(tbl, LAMBDA r : r.challenge = challenge),
                        LAMBDA a, b : a.rowid < b.rowid)
    IN  [i \in 1..Len(rows) |-> <<rows[i].rowid, rows[i].prompt>>]

\* queue_remove: delete_prompt and the reply that tells whether a row went
queue_remove(id) ==
    /\ Dispatching
    /\ LET res == delete_prompt(prompts, id)
       IN  /\ prompts' = res.tbl
           /\ qhist' = [qhist EXCEPT !.removed = IF res.changed THEN @ \cup {id} ELSE @]
           /\ reply' = [cmd |-> "queue_remove", ok |-> TRUE,
                        text |-> IF res.changed THEN "Removed entry from queue"
                                 ELSE "No such entry",
                        items |-> <<>>]
    /\ interaction' = NoInteraction
    /\ UNCHANGED <<storeVars, confirms, handlers, reported, last, inits, users, week_kinds, due,
                   clock, image_mtime, image_gen, commands, ncommands, tokens,
                   processVars>>

\* queue_list: get_prompts and the embed with the queue
queue_list(challenge) ==
    /\ Dispatching
    /\ reply' = [cmd |-> "queue_list", ok |-> TRUE,
                 text |-> IF challenge = Glyph THEN "Queue for Glyph" ELSE "Queue for Ambigram",
                 items |-> get_prompts(prompts, challenge)]
    /\ interaction' = NoInteraction
    /\ UNCHANGED <<storeVars, confirms, handlers, reported, last, inits, qhist, users, week_kinds, due,
                   clock, image_mtime, image_gen, prompts, commands, ncommands, tokens,
                   processVars>>

\* time passes
Tick ==
    /\ clock < MaxClock
    /\ clock' = clock + 1
    /\ reply' = NoReply
    /\ interaction' = NoInteraction
    /\ UNCHANGED <<storeVars, confirms, handlers, reported, last, inits, qhist, users, week_kinds, due,
                   image_mtime, image_gen, prompts, commands, ncommands, tokens,
                   processVars>>

InitConfirmVars ==
    /\ clock = 0
    /\ image_mtime = [path \in ImagePaths |-> -1]
    /\ image_gen = [path \in ImagePaths |-> 0]
    /\ prompts = <<>>
    /\ commands = EmptyBag
    /\ ncommands = 0
    /\ tokens = {}
    /\ interaction = NoInteraction
    /\ reply = NoReply
    /\ qhist = [handed |-> {}, removed |-> {}]
    /\ users = [u \in {} |-> 0]
    /\ week_kinds = <<>>
    /\ due = NoDue
    /\ runtime = Started
    /\ terminators = EmptyBag
    /\ deleted = {}

\* custom ids that no button of this run carries
OtherCustomIds ==
    {<<"7">>, <<"1", "1">>, <<"0", "2", "0">>, <<"0", "0", "x">>, <<"0", "0", "0">>,
     <<"0", "0">>, <<"1">>}

Payloads == tokens \cup {[custom_id |-> c, gen |-> -1] : c \in OtherCustomIds}

(***************************************************************************)
(* User profiles: table users and the commands nickname and profile.       *)
(***************************************************************************)

\* Option<String>
None == [some |-> FALSE, value |-> ""]
Some(v) == [some |-> TRUE, value |-> v]

\* names of 200 and of 201 bytes
N8 == "nnnnnnnn"
N64 == N8 \o N8 \o N8 \o N8 \o N8 \o N8 \o N8 \o N8
Name200 == N64 \o N64 \o N64 \o N8
Name201 == Name200 \o "n"

\* name.len() > 200
MaxNameLen == 200

\* what the nickname command is given, and str::trim of it
NameInputs == {"", " ", "x", " x", "y", "z", Name200, " " \o Name200 \o " ", Name201}
trim(name) == CASE name = " " -> ""
                [] name = " x" -> "x"
                [] name = " " \o Name200 \o " " -> Name200
                [] OTHER -> name

\* a row of table users with every column at its default
UsersRowDefaults ==
    [nickname |-> None,
     glyphs_first |-> 0, glyphs_second |-> 0, glyphs_third |-> 0,
     ambigrams_first |-> 0, ambigrams_second |-> 0, ambigrams_third |-> 0,
     highest_ranking_glyphs |-> 0, highest_ranking_ambigrams |-> 0]

\* INSERT INTO users (id, nickname) ... ON CONFLICT (id) DO UPDATE SET nickname
set_nickname(tbl, user, name) ==
    IF user \in DOMAIN tbl
    THEN [tbl EXCEPT ![user].nickname = Some(name)]
    ELSE [u \in DOMAIN tbl \cup {user} |->
             IF u = user THEN [UsersRowDefaults EXCEPT !.nickname = Some(name)]
             ELSE tbl[u]]

\* UserProfileDataFirst::default() and UserProfileDataSecond::default()
UserProfileDataFirst ==
    [nickname |-> None,
     glyphs_first |-> 0, glyphs_second |-> 0, glyphs_third |-> 0,
     ambigrams_first |-> 0, ambigrams_second |-> 0, ambigrams_third |-> 0,
     highest_ranking_glyphs |-> 0, highest_ranking_ambigrams |-> 0]
UserProfileDataSecond == [glyphs_submissions |-> 0, ambigrams_submissions |-> 0]

\* the count that looks at the rows of the current week only
SumIifCurrentWeek(ledger, user, challenge) ==
    LET rows == {r \in BagToSet(ledger) :
                    r.author = user /\ r.challenge = challenge /\ r.week = Week}
    IN  BagCardinality([r \in rows |-> CopiesIn(r, ledger)])

\* SUM(IIF(challenge = c, 1, 0)) over the rows of one author
SumIif(ledger, user, challenge) ==
    LET rows == {r \in BagToSet(ledger) : r.author = user /\ r.challenge = challenge}
    IN  BagCardinality([r \in rows |-> CopiesIn(r, ledger)])

\* the profile query that takes a missing row for an error (fetch_one)
get_user_profile_fetch_one(tbl, ledger, user) ==
    IF user \notin DOMAIN tbl \/ \A r \in BagToSet(ledger) : r.author # user
    THEN [status |-> "Err", first |-> UserProfileDataFirst, second |-> UserProfileDataSecond]
    ELSE [status |-> "Ok", first |-> tbl[user],
          second |-> [glyphs_submissions |-> SumIif(ledger, user, Glyph),
                      ambigrams_submissions |-> SumIif(ledger, user, Ambigram)]]

\* get_user_profile: each query is fetch_optional(..).unwrap_or_default()
get_user_profile(tbl, ledger, user) ==
    [status |-> "Ok",
     first |-> IF user \in DOMAIN tbl THEN tbl[user] ELSE UserProfileDataFirst,
     second |-> IF \E r \in BagToSet(ledger) : r.author = user
                THEN [glyphs_submissions |-> SumIif(ledger, user, Glyph),
                      ambigrams_submissions |-> SumIif(ledger, user, Ambigram)]
                ELSE UserProfileDataSecond]

\* the command that checks and stores the name as it was given
nickname_untrimmed(user, name) ==
    /\ Dispatching
    /\ IF name = "" \/ Len(name) > MaxNameLen
       THEN /\ users' = users
            /\ reply' = ErrorReply("nickname",
                            "Name must not be empty and contain at most 200 characters")
       ELSE /\ users' = set_nickname(users, user, name)
            /\ reply' = [cmd |-> "nickname", ok |-> TRUE,
                         text |-> "Set your nickname to", items |-> <<name>>]
    /\ interaction' = NoInteraction
    /\ UNCHANGED <<storeVars, confirms, handlers, reported, last, inits, qhist, week_kinds, due,
                   clock, image_mtime, image_gen, prompts, commands, ncommands, tokens,
                   processVars>>

\* the command nickname
nickname(user, name) ==
    /\ Dispatching
    /\ IF trim(name) = "" \/ Len(trim(name)) > MaxNameLen
       THEN /\ users' = users
            /\ reply' = ErrorReply("nickname",
                            "Name must not be empty and contain at most 200 characters")
       ELSE /\ users' = set_nickname(users, user, trim(name))
            /\ reply' = [cmd |-> "nickname", ok |-> TRUE,
                         text |-> "Set your nickname to", items |-> <<trim(name)>>]
    /\ interaction' = NoInteraction
    /\ UNCHANGED <<storeVars, confirms, handlers, reported, last, inits, qhist, week_kinds, due,
                   clock, image_mtime, image_gen, prompts, commands, ncommands, tokens,
                   processVars>>

\* the command profile: the embed carries the profile data of its author
profile(user) ==
    /\ Dispatching
    /\ LET data == get_user_profile(users, submissions, user)
       IN  reply' = IF data.status = "Ok"
                    THEN [cmd |-> "profile", ok |-> TRUE, text |-> "Profile",
                          items |-> <<user, data.first, data.second>>]
                    ELSE ErrorReply("profile", "Failed to get user profile data")
    /\ interaction' = NoInteraction
    /\ UNCHANGED <<storeVars, confirms, handlers, reported, last, inits, qhist, users, week_kinds, due,
                   clock, image_mtime, image_gen, prompts, commands, ncommands, tokens,
                   processVars>>

(***************************************************************************)
(* Termination: terminate() as the SIGINT handler and the program call it. *)
(***************************************************************************)
TerminateTriggers == {"sigint", "programmatic"}

\* the termination that takes the lock without looking at it
terminate_unlocked(trigger) ==
    /\ ~runtime.exited
    /\ runtime.triggers < MaxTriggers
    /\ runtime' = [runtime EXCEPT !.triggers = @ + 1, !.lock = TRUE]
    /\ terminators' = terminators (+) SetToBag({[trigger |-> trigger, pc |-> "bot"]})
    /\ UNCHANGED <<storeVars, confirms, handlers, reported, last, inits,
                   clock, image_mtime, image_gen, prompts, commands, ncommands,
                   tokens, interaction, reply, qhist, users, week_kinds, due, deleted>>

\* terminate: TERMINATION_LOCK.compare_exchange(false, true); the caller
\* that finds the lock taken returns
terminate(trigger) ==
    /\ ~runtime.exited
    /\ runtime.triggers < MaxTriggers
    /\ IF runtime.lock
       THEN /\ runtime' = [runtime EXCEPT !.triggers = @ + 1]
            /\ UNCHANGED terminators
       ELSE /\ runtime' = [runtime EXCEPT !.triggers = @ + 1, !.lock = TRUE]
            /\ terminators' = terminators (+) SetToBag({[trigger |-> trigger, pc |-> "bot"]})
    /\ UNCHANGED <<storeVars, confirms, handlers, reported, last, inits,
                   clock, image_mtime, image_gen, prompts, commands, ncommands,
                   tokens, interaction, reply, qhist, users, week_kinds, due, deleted>>

\* __glyfi_terminate_bot: fw.shutdown_all(): the shards stop dispatching;
\* without a framework (if let Some(fw)) nothing is shut down
glyfi_terminate_bot(t) ==
    /\ BagIn(t, terminators)
    /\ t.pc = "bot"
    /\ runtime' = [runtime EXCEPT !.shards = IF @ = "none" THEN "none" ELSE "down"]
    /\ terminators' = (terminators (-) SetToBag({t})) (+) SetToBag({[t EXCEPT !.pc = "db"]})
    /\ UNCHANGED <<storeVars, confirms, handlers, reported, last, inits,
                   clock, image_mtime, image_gen, prompts, commands, ncommands,
                   tokens, interaction, reply, qhist, users, week_kinds, due, deleted>>

\* the store close that does not wait for the shutdown of the shards
glyfi_fini_db_early(t) ==
    /\ BagIn(t, terminators)
    /\ t.pc \in {"bot", "db"}
    /\ runtime' = IF runtime.pool = "none" THEN runtime
                  ELSE [runtime EXCEPT !.pool = "closed", !.closes = @ + 1]
    /\ terminators' = (terminators (-) SetToBag({t})) (+) SetToBag({[t EXCEPT !.pc = "exit"]})
    /\ UNCHANGED <<storeVars, confirms, handlers, reported, last, inits,
                   clock, image_mtime, image_gen, prompts, commands, ncommands,
                   tokens, interaction, reply, qhist, users, week_kinds, due, deleted>>

\* __glyfi_fini_db: pool.close(); a statement is one step, so none is under
\* way; without a pool (if let Some(pool)) nothing is closed
glyfi_fini_db(t) ==
    /\ BagIn(t, terminators)
    /\ t.pc = "db"
    /\ runtime' = IF runtime.pool = "none" THEN runtime
                  ELSE [runtime EXCEPT !.pool = "closed", !.closes = @ + 1]
    /\ terminators' = (terminators (-) SetToBag({t})) (+) SetToBag({[t EXCEPT !.pc = "exit"]})
    /\ UNCHANGED <<storeVars, confirms, handlers, reported, last, inits,
                   clock, image_mtime, image_gen, prompts, commands, ncommands,
                   tokens, interaction, reply, qhist, users, week_kinds, due, deleted>>

\* the generators of the commands that wait for one
Generators ==
    LET waiting(c) == {cmd \in BagToSet(commands) : cmd.pc = "generate" /\ cmd.challenge = c}
    IN  [c \in {c \in Challenges : waiting(c) # {}} |-> CountRows(commands, waiting(c))]

\* std::process::exit(0): every task ends where it is.  No destructor runs,
\* so a Child that was not dropped before is not killed (kill_on_drop);
\* dropped says that main has returned from start() and dropped the runtime
\* with its tasks first
process_exit(t, dropped) ==
    /\ BagIn(t, terminators)
    /\ t.pc = "exit"
    /\ runtime' = [runtime EXCEPT !.exited = TRUE,
                                  !.orphans = IF dropped THEN EmptyBag ELSE Generators]
    /\ terminators' = EmptyBag
    /\ handlers' = EmptyBag
    /\ commands' = EmptyBag
    /\ reply' = NoReply
    /\ interaction' = NoInteraction
    /\ UNCHANGED <<storeVars, confirms, reported, last, inits,
                   clock, image_mtime, image_gen, prompts, ncommands,
                   tokens, qhist, users, week_kinds, due, deleted>>

\* a generator that has outlived the process exits; on success it has
\* written the image of its challenge
generator_exits(challenge, success) ==
    /\ BagIn(challenge, runtime.orphans)
    /\ success => clock > image_mtime[announcement_image_path(challenge)]
    /\ runtime' = [runtime EXCEPT !.orphans = @ (-) SetToBag({challenge})]
    /\ LET path == announcement_image_path(challenge)
       IN  IF success
           THEN /\ image_mtime' = [image_mtime EXCEPT ![path] = clock]
                /\ image_gen' = [image_gen EXCEPT ![path] = @ + 1]
           ELSE UNCHANGED <<image_mtime, image_gen>>
    /\ UNCHANGED <<storeVars, confirms, handlers, reported, last, inits,
                   clock, prompts, commands, ncommands,
                   tokens, interaction, reply, qhist, users, week_kinds, due,
                   terminators, deleted>>

(***************************************************************************)
(* The ledger specification: the store as __glyfi_init_db creates it, the  *)
(* reactions of authors on their submissions, and the week advancing.      *)
(***************************************************************************)
AllTables == {"submissions", "users", "current_week", "weeks", "prompts"}

NoInits == [p \in {"bot", "tool"} |-> [pc |-> 0, runs |-> 0]]

InitLedger ==
    /\ tables = AllTables
    /\ cw_trigger = TRUE
    /\ submissions_pk = "composite"
    /\ current_week = <<0>>
    /\ submissions \in StartLedgers
    /\ confirms = {}
    /\ handlers = EmptyBag
    /\ reported = {}
    /\ last = [m \in MessageIds |-> NoLast]
    /\ inits = NoInits
    /\ InitConfirmVars

NextLedger ==
    \/ \E r \in SubmitReactions : ReactionAdd(r)
    \/ \E hd \in BagToSet(handlers) : add_submission_current_week(hd)
    \/ \E hd \in BagToSet(handlers) : add_submission(hd)
    \/ \E hd \in BagToSet(handlers) : ReactionAddConfirm(hd)
    \/ \E r \in SubmitReactions : ReactionRemove(r)
    \/ \E hd \in BagToSet(handlers) : remove_submission_current_week(hd)
    \/ \E hd \in BagToSet(handlers) : remove_submission(hd)
    \/ \E hd \in BagToSet(handlers) : ReactionRemoveUnconfirm(hd)
    \/ AdvanceWeek

SpecLedger == InitLedger /\ [][NextLedger]_vars


(***************************************************************************)
(* Store initialisation: __glyfi_init_db of the bot and main of the        *)
(* init_db tool, one step per statement.  pc 0 is "not running".           *)
(***************************************************************************)
InitPrograms == {"bot", "tool"}

\* the step at which each initialiser inserts week 0
InsertStep(p) == IF p = "bot" THEN 6 ELSE 5
LastStep(p) == IF p = "bot" THEN 8 ELSE 6

CreateTable(name) == tables' = tables \cup {name}

\* CREATE TABLE IF NOT EXISTS submissions: the key is that of the creator
CreateSubmissions(pk) ==
    /\ CreateTable("submissions")
    /\ submissions_pk' = IF "submissions" \in tables THEN submissions_pk ELSE pk

InitAdvance(p) ==
    inits' = [inits EXCEPT ![p].pc = IF @ = LastStep(p) THEN 0 ELSE @ + 1]

\* a run of an initialiser begins: create_database and SqlitePool::connect
InitStart(p) ==
    /\ inits[p].pc = 0
    /\ inits[p].runs < MaxInitRuns
    /\ inits' = [inits EXCEPT ![p] = [pc |-> 2, runs |-> @.runs + 1]]
    /\ UNCHANGED <<storeVars, confirms, handlers, reported, last, confirmVars>>

\* sql.rs __glyfi_init_db, statement by statement
glyfi_init_db ==
    LET pc == inits["bot"].pc
    IN  /\ pc >= 2
        /\ InitAdvance("bot")
        /\ \/ /\ pc = 2
              /\ CreateSubmissions("composite")
              /\ UNCHANGED <<cw_trigger, current_week>>
           \/ /\ pc = 3
              /\ CreateTable("users")
              /\ UNCHANGED <<cw_trigger, current_week, submissions_pk>>
           \/ /\ pc = 4
              /\ CreateTable("current_week")
              /\ UNCHANGED <<cw_trigger, current_week, submissions_pk>>
           \/ /\ pc = 5
              /\ cw_trigger' = TRUE
              /\ UNCHANGED <<tables, current_week, submissions_pk>>
           \/ /\ pc = 6
              /\ current_week' = InsertCurrentWeek(current_week, cw_trigger, 0)
              /\ UNCHANGED <<tables, cw_trigger, submissions_pk>>
           \/ /\ pc = 7
              /\ CreateTable("weeks")
              /\ UNCHANGED <<cw_trigger, current_week, submissions_pk>>
           \/ /\ pc = 8
              /\ CreateTable("prompts")
              /\ UNCHANGED <<cw_trigger, current_week, submissions_pk>>
        /\ UNCHANGED <<submissions, confirms, handlers, reported, last, confirmVars>>

\* init_db.rs main, statement by statement
init_db_main ==
    LET pc == inits["tool"].pc
    IN  /\ pc >= 2
        /\ InitAdvance("tool")
        /\ \/ /\ pc = 2
              /\ CreateSubmissions("message")
              /\ UNCHANGED <<cw_trigger, current_week>>
           \/ /\ pc = 3
              /\ CreateTable("current_week")
              /\ UNCHANGED <<cw_trigger, current_week, submissions_pk>>
           \/ /\ pc = 4
              /\ cw_trigger' = TRUE
              /\ UNCHANGED <<tables, current_week, submissions_pk>>
           \/ /\ pc = 5
              /\ current_week' = InsertCurrentWeek(current_week, cw_trigger, 0)
              /\ UNCHANGED <<tables, cw_trigger, submissions_pk>>
           \/ /\ pc = 6
              /\ CreateTable("weeks")
              /\ UNCHANGED <<cw_trigger, current_week, submissions_pk>>
        /\ UNCHANGED <<submissions, confirms, handlers, reported, last, confirmVars>>

InitFresh ==
    /\ tables = {}
    /\ cw_trigger = FALSE
    /\ submissions_pk = "none"
    /\ current_week = <<>>
    /\ submissions = EmptyBag
    /\ confirms = {}
    /\ handlers = EmptyBag
    /\ reported = {}
    /\ last = [m \in MessageIds |-> NoLast]
    /\ inits = NoInits
    /\ InitConfirmVars

NextInit ==
    \/ \E p \in InitPrograms : InitStart(p)
    \/ glyfi_init_db
    \/ init_db_main
    \/ AdvanceWeek

SpecInit == InitFresh /\ [][NextInit]_vars

\* an initialiser has executed its insert of week 0 at least once
PastInsert(p) ==
    \/ inits[p].runs >= 2
    \/ inits[p].runs = 1 /\ (inits[p].pc = 0 \/ inits[p].pc > InsertStep(p))

\* C8: current_week never holds more than one row, holds exactly one from
\* the first initialisation on, and an insert into the non-empty table (a
\* later run of either initialiser) leaves the table as it was.
C8_CurrentWeekSingleton ==
    [][/\ Len(current_week') <= 1
       /\ (\E p \in InitPrograms : PastInsert(p)') => Len(current_week') = 1
       /\ Len(current_week) = 1 =>
              /\ Len(current_week') = 1
              /\ (inits' # inits => current_week' = current_week)]_vars

\* C8 witness: both initialisers have run, the bot's twice, after the week
\* was advanced, and the table holds its one row.
C8_Witness ==
    /\ inits["bot"].runs = 2 /\ inits["bot"].pc = 0
    /\ inits["tool"].runs >= 1 /\ inits["tool"].pc = 0
    /\ current_week = <<1>>


(***************************************************************************)
(* The confirmation specification: an initialised store, the queue         *)
(* commands, the clock and component interactions.                         *)
(***************************************************************************)
\* the store holds a submission, so that a write to it would show
InitConfirm == InitLedger /\ submissions # EmptyBag

NextConfirm ==
    \/ \E c \in Challenges, t \in PromptTexts : queue_add(c, t)
    \/ \E id \in 1..MaxCommands : queue_show(id)
    \/ \E cmd \in BagToSet(commands), success \in BOOLEAN : generate_challenge_image(cmd, success)
    \/ \E cmd \in BagToSet(commands) : add_prompt(cmd)
    \/ \E cmd \in BagToSet(commands), sent \in BOOLEAN : queue_add_reply(cmd, sent)
    \/ \E cmd \in BagToSet(commands), sent \in BOOLEAN : queue_show_reply(cmd, sent)
    \/ \E payload \in Payloads : interaction_create(payload)
    \/ Tick

SpecConfirm == InitConfirm /\ [][NextConfirm]_vars

\* the token of a confirm payload
TokenChallenge(custom_id) == parse_Challenge(custom_id[2])
TokenTime(custom_id) == parse_u64(custom_id[3])

IsConfirmToken(custom_id) ==
    /\ Len(custom_id) >= 3
    /\ parse_InteractionID(custom_id) = ConfirmAnnouncement
    /\ TokenChallenge(custom_id) # -1
    /\ TokenTime(custom_id) # -1

\* C9: a confirm whose marker differs from the modification time of the
\* image of its challenge at that moment ends as Stale, with no response
\* and no change of the store, the image or the queue; Confirmed is only
\* reached with the marker equal to the current one of the token's own
\* challenge.
C9_StalenessGate ==
    [][interaction' # NoInteraction =>
          LET id == interaction'.custom_id
              path == announcement_image_path(TokenChallenge(id))
          IN  /\ (/\ IsConfirmToken(id)
                  /\ image_mtime[path] # -1
                  /\ TokenTime(id) # image_mtime[path] \div TicksPerSecond) =>
                     /\ interaction'.outcome = "Stale"
                     /\ interaction'.response = "none"
              /\ interaction'.outcome = "Confirmed" =>
                     /\ IsConfirmToken(id)
                     /\ image_mtime[path] # -1
                     /\ TokenTime(id) = image_mtime[path] \div TicksPerSecond
              /\ UNCHANGED <<storeVars, prompts, image_mtime, confirms>>]_vars

\* C9 witness: a token handed out for an image that was generated again a
\* second later has been presented and has ended as Stale.
C9_Witness ==
    /\ interaction.outcome = "Stale"
    /\ interaction.gen >= 1
    /\ interaction.gen < image_gen[announcement_image_path(TokenChallenge(interaction.custom_id))]

Steps(hd) == CopiesIn(hd, handlers') < CopiesIn(hd, handlers)

\* the step takes a handler task to position pc
Reaches(hd, pc) ==
    CopiesIn([hd EXCEPT !.pc = pc], handlers') > CopiesIn([hd EXCEPT !.pc = pc], handlers)

\* the step ends a handler task
Ends == BagCardinality(handlers') < BagCardinality(handlers)

\* handler hd takes the step that applies its statement to submissions
AppliesStatement(hd) == hd.pc \in {"insert", "delete"} /\ Steps(hd)

KeyRowsOf(tbl, hd) == KeyRows(tbl, hd.message, hd.week, hd.challenge)

\* the number of rows of a table with the key of a handler's statement
KeyCountOf(tbl, hd) == CountRows(tbl, KeyRowsOf(tbl, hd))

ChallengeOf(m) == match_relevant_reaction_event(
                      [emoji |-> SUBMIT_EMOJI_ID, user_id |-> Messages[m].author, message |-> m])

\* the number of rows of a message for the week of its last statement
LastKeyCount(tbl, m) ==
    CountRows(tbl, KeyRows(tbl, m, last[m].week, ChallengeOf(m)))

\* C1: an add whose key (message, week, challenge) is already present is
\* rejected with a conflict that ends the handler and is reported to the
\* user as an error, the ledger is left as it was, and no key ever has two
\* rows; an add that went through created the one row of its key.
C1_DuplicateAddConflicts ==
    [][\A hd \in BagToSet(handlers) :
          (hd.pc = "insert" /\ Steps(hd)) =>
              /\ KeyRowsOf(submissions, hd) # {} =>
                     /\ submissions' = submissions
                     /\ Ends
                     /\ <<hd.user, "Error adding submission">> \in reported'
              /\ Reaches(hd, "react") =>
                     /\ KeyRowsOf(submissions, hd) = {}
                     /\ BagCardinality(submissions') = BagCardinality(submissions) + 1
                     /\ reported' = reported
              /\ Ends \/ Reaches(hd, "react")
              /\ KeyCountOf(submissions', hd) = 1]_vars

\* C1 witness: a second add for a present key has ended in a conflict that
\* was reported, while the row of the first add is still the only one of its
\* key.
C1_Witness ==
    \E m \in MessageIds :
        /\ last[m].op = "conflict"
        /\ last[m].hit
        /\ <<Messages[m].author, "Error adding submission">> \in reported
        /\ LastKeyCount(submissions, m) = 1

\* C2: a remove whose key has no row returns Ok (the handler goes on to
\* remove the confirmation reaction, nothing is reported) and leaves the
\* ledger unchanged.
C2_RemoveAbsentIsNoOp ==
    [][\A hd \in BagToSet(handlers) :
          (/\ hd.pc = "delete"
           /\ Steps(hd)
           /\ KeyRowsOf(submissions, hd) = {}) =>
              /\ submissions' = submissions
              /\ reported' = reported
              /\ Reaches(hd, "unreact")]_vars

\* C2 witness: a delete found no row although the ledger holds rows, and its
\* handler continues as after a successful removal.
C2_Witness ==
    \E hd \in BagToSet(handlers) :
        /\ hd.pc = "unreact"
        /\ last[hd.message].op = "delete"
        /\ ~last[hd.message].hit
        /\ BagCardinality(submissions) > 0

\* C3: after a successful add and a remove of the same key no row of the key
\* is left, and the next add of that key is a fresh insert that succeeds.
C3_AddRemoveRoundTrip ==
    [][/\ \A m \in MessageIds :
              last'[m].chain = 2 =>
                  KeyRows(submissions', m, last'[m].week, ChallengeOf(m)) = {}
       /\ \A hd \in BagToSet(handlers) :
              (/\ hd.pc = "insert"
               /\ Steps(hd)
               /\ last[hd.message].chain = 2
               /\ last[hd.message].week = hd.week) =>
                  /\ Reaches(hd, "react")
                  /\ BagCardinality(submissions') = BagCardinality(submissions) + 1
                  /\ KeyCountOf(submissions', hd) = 1]_vars

\* C3 witness: add, remove and add again of one key, the row present once.
C3_Witness ==
    \E m \in MessageIds :
        /\ last[m].chain = 3
        /\ LastKeyCount(submissions, m) = 1

\* the rows of a table that belong to a week
RowsOfWeek(tbl, week) == [r \in {q \in BagToSet(tbl) : q.week = week} |-> tbl[r]]

\* C4: a statement of an add or remove that was issued when the current week
\* was w leaves the rows of every week before w exactly as they were.
C4_EarlierWeeksUntouched ==
    [][\A hd \in BagToSet(handlers) :
          AppliesStatement(hd) =>
              \A w \in 0..MaxWeek :
                  w < hd.issued =>
                      RowsOfWeek(submissions', w) = RowsOfWeek(submissions, w)]_vars

\* C4 witness: a message has a row of an earlier week, and a call issued
\* after the week advanced has applied its statement for the same message.
C4_Witness ==
    \E m \in MessageIds :
        /\ last[m].op \in {"delete", "insert"}
        /\ last[m].week = Week
        /\ \E r \in BagToSet(submissions) : r.message = m /\ r.week < Week

\* C5: in every reachable ledger state a (message, challenge) has rows in at
\* most one week.
C5_OneWeekPerMessage ==
    \A r, q \in BagToSet(submissions) :
        (r.message = q.message /\ r.challenge = q.challenge) => r.week = q.week

\* C6: the row of a key is there exactly once if the last statement that
\* reached the store for it was the insert, and is absent if it was the
\* delete; no remove ends with an error.
C6_ArrivalOrderDecides ==
    /\ \A m \in MessageIds :
           /\ last[m].op \in {"insert", "conflict"} => LastKeyCount(submissions, m) = 1
           /\ last[m].op = "delete" => LastKeyCount(submissions, m) = 0
    /\ \A u \in Users : <<u, "Error removing submission">> \notin reported
    /\ \A hd \in BagToSet(handlers) :
           hd.kind = "remove" => hd.pc \in {"current_week", "delete", "unreact"}

\* C6 witness: an add and a remove of one key are in flight together, both
\* statements have reached the store, the delete last, and the row is gone.
C6_Witness ==
    \E a, b \in BagToSet(handlers) :
        /\ a.kind = "add" /\ a.pc = "react"
        /\ b.kind = "remove" /\ b.pc = "unreact"
        /\ a.message = b.message
        /\ a.week = b.week
        /\ last[a.message].op = "delete"
        /\ last[a.message].hit
        /\ KeyRowsOf(submissions, a) = {}

\* C7: the week a statement is bound to is the current week at the moment
\* the statement is applied.
C7_StatementUsesCurrentWeek ==
    [][\A hd \in BagToSet(handlers) :
          AppliesStatement(hd) => hd.week = Week]_vars

(***************************************************************************)
(* The queue specification: the prompt queue under queue add, list,        *)
(* remove and show.                                                        *)
(***************************************************************************)
\* the queue a run starts from: one Ambigram prompt of an earlier queue add
StartQueue == <<[rowid |-> 1, challenge |-> Ambigram, prompt |-> "b"]>>

InitQueue ==
    /\ tables = AllTables
    /\ cw_trigger = TRUE
    /\ submissions_pk = "composite"
    /\ current_week = <<0>>
    /\ submissions = SetToBag({SubmissionRow(2, 0, Ambigram)})
    /\ confirms = {}
    /\ handlers = EmptyBag
    /\ reported = {}
    /\ last = [m \in MessageIds |-> NoLast]
    /\ inits = NoInits
    /\ clock = 0
    /\ image_mtime = [path \in ImagePaths |-> -1]
    /\ image_gen = [path \in ImagePaths |-> 0]
    /\ prompts = StartQueue
    /\ commands = EmptyBag
    /\ ncommands = 0
    /\ tokens = {}
    /\ interaction = NoInteraction
    /\ reply = NoReply
    /\ qhist = [handed |-> {1}, removed |-> {}]
    /\ users = [u \in {} |-> 0]
    /\ week_kinds = <<>>
    /\ due = NoDue
    /\ runtime = Started
    /\ terminators = EmptyBag
    /\ deleted = {}

\* the ids a caller passes to queue remove and queue show
QueueIds == 1..(MaxCommands + 1)

NextQueue ==
    \/ \E t \in PromptTexts : queue_add(Glyph, t)
    \/ \E id \in QueueIds : queue_show(id)
    \/ \E cmd \in BagToSet(commands), success \in BOOLEAN : generate_challenge_image(cmd, success)
    \/ \E cmd \in BagToSet(commands) : add_prompt(cmd)
    \/ \E cmd \in BagToSet(commands), sent \in BOOLEAN : queue_add_reply(cmd, sent)
    \/ \E cmd \in BagToSet(commands), sent \in BOOLEAN : queue_show_reply(cmd, sent)
    \/ \E id \in QueueIds : queue_remove(id)
    \/ \E c \in Challenges : queue_list(c)
    \/ Tick

SpecQueue == InitQueue /\ [][NextQueue]_vars

\* C11: every id add_prompt returns is greater than every id it returned
\* before, also after entries were removed.
C11_IdsStrictlyIncreasing ==
    [][Len(prompts') > Len(prompts) =>
          \A id \in qhist.handed : prompts'[Len(prompts')].rowid > id]_vars

\* the entries of a challenge in the order in which they were enqueued
\* (prompts keeps its rows in insertion order), as get_prompts returns rows
EnqueueOrder(challenge) ==
    LET rows == SelectSeq(prompts, LAMBDA r : r.challenge = challenge)
    IN  [i \in 1..Len(rows) |-> <<rows[i].rowid, rows[i].prompt>>]

\* the challenge a queue list reply is for
ListedChallenge == IF reply.text = "Queue for Glyph" THEN Glyph ELSE Ambigram

\* C12: for each challenge, get_prompts returns the entries of that
\* challenge that are in the table, in the order they were enqueued, with
\* strictly ascending ids; the reply of queue list carries that sequence.
C12_ListIsFifo ==
    /\ \A c \in Challenges :
           LET listed == get_prompts(prompts, c)
           IN  /\ listed = EnqueueOrder(c)
               /\ \A i, j \in 1..Len(listed) : i < j => listed[i][1] < listed[j][1]
    /\ reply.cmd = "queue_list" => reply.items = EnqueueOrder(ListedChallenge)

\* C12 witness: after a removal, queue list has returned two entries.
C12_Witness ==
    /\ reply.cmd = "queue_list"
    /\ Len(reply.items) = 2
    /\ qhist.removed # {}

\* the rowids of a prompts table
RowIds(tbl) == {tbl[i].rowid : i \in 1..Len(tbl)}

\* C13: no remove ends in an error, a remove that finds no entry leaves the
\* queue unchanged, and a remove returns true for an id only if no earlier
\* remove returned true for that id.
C13_RemoveTrueOnce ==
    [][reply'.cmd = "queue_remove" =>
          /\ reply'.ok
          /\ reply'.text = "No such entry" => prompts' = prompts
          /\ reply'.text = "Removed entry from queue" =>
                 \A id \in RowIds(prompts) \ RowIds(prompts') : id \notin qhist.removed]_vars

\* the command tasks that the step has put at a new position
Arrived == {cmd \in BagToSet(commands') : CopiesIn(cmd, commands') > CopiesIn(cmd, commands)}

\* C14: get_prompt(id) is the (challenge, prompt) pair enqueued under id
\* from the insert on and for as long as the entry stays in the table; for
\* an id with no entry it is the NotFound error, never a default entry or a
\* panic; queue show reports that error, previews exactly the entry of its
\* id otherwise, and leaves the queue as it was.
C14_PeekReturnsEntryOrNotFound ==
    [][/\ \A id \in QueueIds :
              /\ id \notin RowIds(prompts') => get_prompt(prompts', id).status = "NotFound"
              /\ id \in RowIds(prompts') => get_prompt(prompts', id).status = "Ok"
              /\ id \in RowIds(prompts) \cap RowIds(prompts') /\ Len(prompts') <= Len(prompts) =>
                     get_prompt(prompts', id) = get_prompt(prompts, id)
       /\ Len(prompts') > Len(prompts) =>
              \E cmd \in BagToSet(commands) :
                  /\ cmd.pc = "add_prompt"
                  /\ [cmd EXCEPT !.pc = "reply", !.id = prompts'[Len(prompts')].rowid] \in Arrived
                  /\ get_prompt(prompts', prompts'[Len(prompts')].rowid) =
                         [status |-> "Ok", challenge |-> cmd.challenge, prompt |-> cmd.prompt]
       /\ ncommands' > ncommands =>
              /\ prompts' = prompts
              /\ reply'.cmd = "queue_show" =>
                     /\ reply' = [ErrorReply("queue_show", "NotFound") EXCEPT !.items = reply'.items]
                     /\ reply'.items[1] \notin RowIds(prompts)
                     /\ commands' = commands
              /\ \A cmd \in Arrived :
                     cmd.kind = "queue_show" =>
                         get_prompt(prompts, cmd.id) =
                             [status |-> "Ok", challenge |-> cmd.challenge, prompt |-> cmd.prompt]]_vars

\* C14 witness: queue show of the id of a removed entry has failed with the
\* not-found error while the queue holds other entries.
C14_Witness ==
    /\ reply.cmd = "queue_show"
    /\ reply.text = "NotFound"
    /\ reply.items[1] \in qhist.removed
    /\ reply.items[1] \notin RowIds(prompts)
    /\ Len(prompts) > 0

\* the queue entry a cancel payload names: the id of "1:<id>", -1 if none
CancelledId(custom_id) ==
    IF parse_InteractionID(custom_id) = CancelAnnouncement /\ Len(custom_id) >= 2
    THEN parse_u64(custom_id[2])
    ELSE -1

\* C15: a cancel interaction that names a queue entry removes that entry
\* (it is no longer in the table, so list and peek do not find it) and
\* leaves the image files untouched.
C15_CancelRemovesEntry ==
    [][(/\ interaction' # NoInteraction
        /\ CancelledId(interaction'.custom_id) \in RowIds(prompts)) =>
           /\ CancelledId(interaction'.custom_id) \notin RowIds(prompts')
           /\ get_prompt(prompts', CancelledId(interaction'.custom_id)).status = "NotFound"
           /\ image_mtime' = image_mtime]_vars

\* a command task whose generator has exited without writing the image
GenerationFailed(cmd) ==
    /\ cmd.pc = "generate"
    /\ CopiesIn(cmd, commands') < CopiesIn(cmd, commands)
    /\ image_gen' = image_gen

\* C16: when the generator of a command fails, the command ends there: the
\* error is the reply to the caller, no task goes on to add_prompt or to the
\* reply with the buttons, and the queue, the tokens and the store are as
\* they were.
C16_GenerationFailureAborts ==
    [][\A cmd \in BagToSet(commands) :
          GenerationFailed(cmd) =>
              /\ reply' = ErrorReply(cmd.kind, "Failed to generate image")
              /\ Arrived = {}
              /\ BagCardinality(commands') = BagCardinality(commands) - 1
              /\ prompts' = prompts
              /\ tokens' = tokens
              /\ qhist' = qhist
              /\ UNCHANGED <<storeVars, users, confirms>>]_vars

\* C16 witness: after one queue add went through, the generator of a second
\* queue add has failed and the failure was reported.
C16_Witness ==
    /\ reply = ErrorReply("queue_add", "Failed to generate image")
    /\ Len(prompts) = 1
    /\ tokens # {}
    /\ ncommands = 2
    /\ commands = EmptyBag

(***************************************************************************)
(* The rotation specification: week kinds are entered and the start of a   *)
(* week is classified.                                                     *)
(***************************************************************************)
InitRotation == InitLedger /\ submissions = EmptyBag

NextRotation ==
    \/ \E kind \in WeekKinds : SetWeekKind(kind)
    \/ \E w \in 0..(MaxKinds - 1) : StartOfWeek(w)

SpecRotation == InitRotation /\ [][NextRotation]_vars

C18_NoHistoryIsRegular ==
    /\ due.week = 0 =>
           /\ due.PanelDue
           /\ due.HallOfFameDue
           /\ due.AnnounceDue <=> week_kinds[1] # Special
    /\ due.week = 1 => due.HallOfFameDue

\* C18 witness: the start of a Special week 0: no announcement, panel and
\* hall of fame due.
C18_Witness ==
    /\ due.week = 0
    /\ week_kinds = <<Special, Extended>>
    /\ ~due.AnnounceDue /\ due.PanelDue /\ due.HallOfFameDue

\* a payload that does not parse: an unknown action id, or a confirm id
\* "0:<challenge>:<mtime>" or a cancel id "1:<id>" with a field missing, an
\* unknown challenge or a number that is none
Malformed(custom_id) ==
    \/ parse_InteractionID(custom_id) = -1
    \/ /\ parse_InteractionID(custom_id) = ConfirmAnnouncement
       /\ \/ Len(custom_id) < 3
          \/ parse_Challenge(custom_id[2]) = -1
          \/ parse_u64(custom_id[3]) = -1
    \/ /\ parse_InteractionID(custom_id) = CancelAnnouncement
       /\ \/ Len(custom_id) < 2
          \/ parse_u64(custom_id[2]) = -1

\* C19: an interaction whose payload does not parse (unknown action id,
\* missing field, unknown challenge id, non-numeric freshness marker) is
\* answered with an error response to the interacting user, its handler does
\* not complete and no state is committed.
C19_BadPayloadReported ==
    [][(interaction' # NoInteraction /\ Malformed(interaction'.custom_id)) =>
           /\ interaction'.response \in {"Error processing interaction", "Error: Unknown ID"}
           /\ interaction'.outcome \in {"Error", "UnknownID"}
           /\ prompts' = prompts
           /\ image_mtime' = image_mtime
           /\ submissions' = submissions]_vars

(***************************************************************************)
(* The profile specification: nicknames are set and profiles are shown     *)
(* over a ledger with or without rows.                                     *)
(***************************************************************************)
InitProfile == InitLedger

NextProfile ==
    \/ \E u \in Users, name \in NameInputs : nickname(u, name)
    \/ \E u \in Users : profile(u)

SpecProfile == InitProfile /\ [][NextProfile]_vars

\* the ledger rows of a user
LedgerRowsOf(user) == {r \in BagToSet(submissions) : r.author = user}

\* C20: the profile command of a user always succeeds; with no users row
\* the nickname is None and every placement counter and highest ranking is
\* zero, with no ledger rows both submission counts are zero, and the half
\* that has rows is returned from them.
C20_ProfileDefaults ==
    [][reply'.cmd = "profile" =>
          /\ reply'.ok
          /\ LET u == reply'.items[1]
                 first == reply'.items[2]
                 second == reply'.items[3]
             IN  /\ u \notin DOMAIN users =>
                        /\ first.nickname = None
                        /\ first.glyphs_first = 0 /\ first.glyphs_second = 0
                        /\ first.glyphs_third = 0
                        /\ first.ambigrams_first = 0 /\ first.ambigrams_second = 0
                        /\ first.ambigrams_third = 0
                        /\ first.highest_ranking_glyphs = 0
                        /\ first.highest_ranking_ambigrams = 0
                 /\ u \in DOMAIN users => first = users[u]
                 /\ LedgerRowsOf(u) = {} =>
                        second.glyphs_submissions = 0 /\ second.ambigrams_submissions = 0
                 /\ second.glyphs_submissions + second.ambigrams_submissions
                        = Cardinality(LedgerRowsOf(u))]_vars

\* C20 witness: the profile of a user with ledger rows and no users row:
\* no nickname, one ambigram submission, while the other user has a nickname.
C20_Witness ==
    /\ reply.cmd = "profile" /\ reply.ok
    /\ reply.items[1] \notin DOMAIN users
    /\ DOMAIN users # {}
    /\ LedgerRowsOf(reply.items[1]) # {}
    /\ reply.items[2].nickname = None
    /\ reply.items[3] = [glyphs_submissions |-> 0, ambigrams_submissions |-> 1]

(***************************************************************************)
(* The counts specification: the reaction intake and the week advancing,   *)
(* with the profile command reading the ledger in between.                 *)
(***************************************************************************)
InitCounts == InitLedger /\ submissions # EmptyBag

NextCounts ==
    \/ NextLedger
    \/ \E u \in Users : profile(u)

SpecCounts == InitCounts /\ [][NextCounts]_vars

\* the number of ledger rows of a user for a challenge, over all weeks
LedgerCount(user, challenge) ==
    CountRows(submissions,
              {r \in BagToSet(submissions) : r.author = user /\ r.challenge = challenge})

\* C21: a step in which the profile command replies reports for each
\* challenge as many submissions as the ledger holds rows of its author for
\* that challenge over all weeks, and it changes nothing that is stored.
C21_ProfileCountsAllWeeks ==
    [][(reply'.cmd = "profile" /\ reply' # reply) =>
          /\ reply'.ok
          /\ reply'.items[3].glyphs_submissions = LedgerCount(reply'.items[1], Glyph)
          /\ reply'.items[3].ambigrams_submissions = LedgerCount(reply'.items[1], Ambigram)
          /\ UNCHANGED <<storeVars, users, prompts, confirms>>]_vars

\* C21 witness: a profile that counts two glyph submissions of one author
\* while the ledger holds only one of them for the current week.
C21_Witness ==
    /\ reply.cmd = "profile" /\ reply.ok
    /\ reply.items[3].glyphs_submissions = 2
    /\ Week = 1
    /\ Cardinality({r \in BagToSet(submissions) : r.author = reply.items[1] /\ r.week = Week}) = 1

(***************************************************************************)
(* The shutdown specification: the reaction intake of one week while       *)
(* terminate() is called.                                                  *)
(***************************************************************************)
InitShutdown == InitLedger /\ submissions # EmptyBag

NextShutdown ==
    \/ \E r \in SubmitReactions : ReactionAdd(r)
    \/ \E hd \in BagToSet(handlers) : add_submission_current_week(hd)
    \/ \E hd \in BagToSet(handlers) : add_submission(hd)
    \/ \E hd \in BagToSet(handlers) : ReactionAddConfirm(hd)
    \/ \E r \in SubmitReactions : ReactionRemove(r)
    \/ \E hd \in BagToSet(handlers) : remove_submission_current_week(hd)
    \/ \E hd \in BagToSet(handlers) : remove_submission(hd)
    \/ \E hd \in BagToSet(handlers) : ReactionRemoveUnconfirm(hd)
    \/ \E trigger \in TerminateTriggers : terminate(trigger)
    \/ \E t \in BagToSet(terminators) : glyfi_terminate_bot(t)
    \/ \E t \in BagToSet(terminators) : glyfi_fini_db(t)
    \/ \E t \in BagToSet(terminators), dropped \in BOOLEAN : process_exit(t, dropped)

SpecShutdown == InitShutdown /\ [][NextShutdown]_vars

\* the step is a call of terminate()
Triggered == runtime'.triggers > runtime.triggers

\* C22: of any number of calls of terminate() exactly one takes the lock
\* and tears down; a call that finds the lock taken changes nothing of the
\* bot or the store; the pool is closed at most once.
C22_ShutdownSingleShot ==
    [][/\ (Triggered /\ ~runtime.lock) =>
              /\ runtime'.lock
              /\ BagCardinality(terminators') = 1
       /\ (Triggered /\ runtime.lock) =>
              /\ runtime' = [runtime EXCEPT !.triggers = @ + 1]
              /\ UNCHANGED <<terminators, storeVars, handlers, confirms, reported>>
       /\ BagCardinality(terminators') <= 1
       /\ runtime'.closes <= 1]_vars

\* C22 witness: terminate() has been called MaxTriggers times, one caller
\* has closed the pool and is about to exit.
C22_Witness ==
    /\ runtime.triggers = MaxTriggers
    /\ runtime.closes = 1
    /\ \E t \in BagToSet(terminators) : t.pc = "exit"

\* the step is a store statement of handler task hd
StoreAccess(hd) ==
    /\ hd.pc \in {"current_week", "insert", "delete"}
    /\ Steps(hd)
    /\ ~runtime'.exited

\* C23: once the termination lock is taken no handler starts on the store;
\* no handler runs a statement against the closed pool; and no handler is
\* in flight when the process exits (the handlers in flight drain first).
C23_ShutdownDrains ==
    [][/\ \A hd \in BagToSet(handlers) :
              (runtime.lock /\ hd.pc = "current_week") => ~StoreAccess(hd)
       /\ \A hd \in BagToSet(handlers) : PoolClosed => ~StoreAccess(hd)
       /\ (runtime'.exited /\ ~runtime.exited) => handlers = EmptyBag]_vars

(***************************************************************************)
(* The abandon specification: queue add with its generator while           *)
(* terminate() is called.                                                  *)
(***************************************************************************)
InitAbandon == InitConfirm

NextAbandon ==
    \/ \E t \in PromptTexts : queue_add(Glyph, t)
    \/ \E cmd \in BagToSet(commands), success \in BOOLEAN : generate_challenge_image(cmd, success)
    \/ \E cmd \in BagToSet(commands) : add_prompt(cmd)
    \/ \E cmd \in BagToSet(commands), sent \in BOOLEAN : queue_add_reply(cmd, sent)
    \/ Tick
    \/ \E trigger \in TerminateTriggers : terminate(trigger)
    \/ \E t \in BagToSet(terminators) : glyfi_terminate_bot(t)
    \/ \E t \in BagToSet(terminators) : glyfi_fini_db(t)
    \/ \E t \in BagToSet(terminators), dropped \in BOOLEAN : process_exit(t, dropped)
    \/ \E c \in Challenges, success \in BOOLEAN : generator_exits(c, success)

SpecAbandon == InitAbandon /\ [][NextAbandon]_vars

\* C24: a generator whose request was abandoned by the shutdown of the
\* process does not keep running: once the process has exited no generator
\* is left and no image file is written any more.
C24_AbandonedGeneratorKilled ==
    [][runtime'.exited =>
          /\ runtime'.orphans = EmptyBag
          /\ (runtime.exited => image_mtime' = image_mtime /\ image_gen' = image_gen)]_vars

(***************************************************************************)
(* The rejection specification: every reaction event on every message of   *)
(* the run, in one week.                                                   *)
(***************************************************************************)
InitReject == InitLedger /\ submissions = EmptyBag

\* every reaction on the submission 1, and the reactions of their authors
\* on the messages 4, 5 and 6
RejectReactions == {r \in Reactions :
                       \/ r.message = 1
                       \/ r.message \in {4, 5, 6} /\ r.user_id = Messages[r.message].author}

NextReject ==
    \/ \E r \in RejectReactions : ReactionAdd(r)
    \/ \E hd \in BagToSet(handlers) : report_user_error(hd)
    \/ \E hd \in BagToSet(handlers) : remove_reaction(hd)
    \/ \E hd \in BagToSet(handlers) : add_submission_current_week(hd)
    \/ \E hd \in BagToSet(handlers) : add_submission(hd)
    \/ \E hd \in BagToSet(handlers) : ReactionAddConfirm(hd)
    \/ \E r \in {r \in Reactions : r.message = 1} : ReactionRemove(r)
    \/ \E hd \in BagToSet(handlers) : remove_submission_current_week(hd)
    \/ \E hd \in BagToSet(handlers) : remove_submission(hd)
    \/ \E hd \in BagToSet(handlers) : ReactionRemoveUnconfirm(hd)

SpecReject == InitReject /\ [][NextReject]_vars

\* the reacting user of a handler task is not the author of its message
Foreign(hd) == hd.user # Messages[hd.message].author

\* C25: a submit reaction of a user who is not the author of the message
\* never changes the ledger: reaction_add only deletes that reaction,
\* inserts no row and adds no confirmation; reaction_remove does nothing.
C25_ForeignReactionIgnored ==
    [][/\ \A hd \in BagToSet(handlers') :
              Foreign(hd) => hd.kind = "add" /\ hd.pc = "remove_foreign"
       /\ \A hd \in BagToSet(handlers) :
              (Foreign(hd) /\ Steps(hd)) =>
                  /\ deleted' = deleted \cup {<<hd.user, hd.message>>}
                  /\ Ends
                  /\ UNCHANGED <<submissions, confirms, reported>>
       /\ \A row \in BagToSet(submissions') : row.author = Messages[row.message].author]_vars

\* C25 witness: the reaction of user 2 on submission 1 has been deleted
\* while the submission of its author stands confirmed.
C25_Witness ==
    /\ <<2, 1>> \in deleted
    /\ 1 \in confirms
    /\ KeyRows(submissions, 1, 0, Glyph) # {}
    /\ handlers = EmptyBag

\* a message that is no submission: not exactly one attachment, or one
\* that is no image
NoSubmission(m) ==
    \/ Len(Messages[m].attachments) # 1
    \/ ~Messages[m].attachments[1].height

\* C26: the author's submit reaction on a message that is no submission is
\* rejected: the author is notified, then the reaction is deleted; no row
\* is inserted and no confirmation is added for that message.
C26_MalformedSubmissionRejected ==
    [][/\ \A hd \in BagToSet(handlers') :
              (hd.kind = "add" /\ ~Foreign(hd) /\ NoSubmission(hd.message)) =>
                  hd.pc \in {"reject_count", "reject_image", "remove_reaction"}
       /\ \A hd \in BagToSet(handlers) :
              (hd.kind = "add" /\ ~Foreign(hd) /\ NoSubmission(hd.message) /\ Steps(hd)) =>
                  /\ hd.pc # "remove_reaction" =>
                         /\ Reaches(hd, "remove_reaction")
                         /\ \E text \in {"Submissions must contain exactly one image",
                                         "Submissions must contain only images"} :
                                <<hd.user, text>> \in reported'
                  /\ hd.pc = "remove_reaction" =>
                         /\ Ends
                         /\ deleted' = deleted \cup {<<hd.user, hd.message>>}
                         /\ \E text \in {"Submissions must contain exactly one image",
                                         "Submissions must contain only images"} :
                                <<hd.user, text>> \in reported
                  /\ UNCHANGED <<submissions, confirms>>
       /\ \A row \in BagToSet(submissions') : ~NoSubmission(row.message)
       /\ \A m \in confirms' : ~NoSubmission(m)]_vars

\* C26 witness: the reactions of the authors on message 4 (a file) and on
\* message 6 (two images) have been rejected with both notices.
C26_Witness ==
    /\ <<1, 4>> \in deleted
    /\ <<2, 6>> \in deleted
    /\ <<1, "Submissions must contain only images">> \in reported
    /\ <<2, "Submissions must contain exactly one image">> \in reported
    /\ handlers = EmptyBag

\* the names the nickname command turns down
Rejected(name) ==
    \/ name \in {"", " "}
    \/ Len(name) > MaxNameLen /\ name # " " \o Name200 \o " "

\* the name without the blanks around it
Trimmed(name) == IF name = " x" THEN "x"
                 ELSE IF name = " " \o Name200 \o " " THEN Name200
                 ELSE name

C28_ConfirmationMirrorsLedger ==
    (handlers = EmptyBag /\ Week = 0) =>
        \A m \in confirms : KeyRows(submissions, m, Week, ChallengeOf(m)) # {}

\* C29: when a queue add command ends with an error, the queue does not
\* hold an entry of that command: what it had added is gone again.
C29_QueueAddAllOrNothing ==
    [][\A cmd \in BagToSet(commands) :
          (/\ cmd.kind = "queue_add"
           /\ CopiesIn(cmd, commands') < CopiesIn(cmd, commands)
           /\ reply'.cmd = "queue_add" /\ ~reply'.ok) =>
              cmd.id \notin RowIds(prompts')]_vars

(***************************************************************************)
(* One announcement attempt after the other: queue add for one challenge,  *)
(* its buttons, and the tokens that were confirmed so far.                 *)
(***************************************************************************)

InitAttempt ==
    /\ tables = AllTables
    /\ cw_trigger = TRUE
    /\ submissions_pk = "composite"
    /\ current_week = <<0>>
    /\ submissions = SetToBag({SubmissionRow(2, 0, Ambigram)})
    /\ confirms = {}
    /\ handlers = EmptyBag
    /\ reported = {}
    /\ last = [m \in MessageIds |-> NoLast]
    /\ inits = NoInits
    /\ clock = 0
    /\ image_mtime = [path \in ImagePaths |-> -1]
    /\ image_gen = [path \in ImagePaths |-> 0]
    /\ prompts = <<>>
    /\ commands = EmptyBag
    /\ ncommands = 0
    /\ tokens = {}
    /\ interaction = NoInteraction
    /\ reply = NoReply
    /\ qhist = [handed |-> {}, removed |-> {}, confirmed |-> {}]
    /\ users = [u \in {} |-> 0]
    /\ week_kinds = <<>>
    /\ due = NoDue
    /\ runtime = Started
    /\ terminators = EmptyBag
    /\ deleted = {}

NextAttempt ==
    \/ \E t \in PromptTexts : queue_add(Glyph, t)
    \/ \E cmd \in BagToSet(commands), success \in BOOLEAN : generate_challenge_image(cmd, success)
    \/ \E cmd \in BagToSet(commands) : add_prompt(cmd)
    \/ \E cmd \in BagToSet(commands), sent \in BOOLEAN : queue_add_reply(cmd, sent)
    \/ \E payload \in Payloads : interaction_create(payload)
    \/ Tick

SpecAttempt == InitAttempt /\ [][NextAttempt]_vars

C31_IdNeverRebound ==
    \A id \in qhist.removed : \A i \in 1..Len(prompts) : prompts[i].rowid # id

(***************************************************************************)
(* Restart: the initialisers run on a store that is either fresh or        *)
(* already holds a week, a ledger row, a queue entry and a user.           *)
(***************************************************************************)

StoredUsers == [u \in {1} |-> [UsersRowDefaults EXCEPT !.nickname = Some("x")]]

InitStored ==
    /\ tables = AllTables
    /\ cw_trigger = TRUE
    /\ submissions_pk = "composite"
    /\ current_week \in {<<w>> : w \in 0..MaxWeek}
    /\ submissions = SetToBag({SubmissionRow(2, 0, Ambigram)})
    /\ confirms = {}
    /\ handlers = EmptyBag
    /\ reported = {}
    /\ last = [m \in MessageIds |-> NoLast]
    /\ inits = NoInits
    /\ clock = 0
    /\ image_mtime = [path \in ImagePaths |-> -1]
    /\ image_gen = [path \in ImagePaths |-> 0]
    /\ prompts = StartQueue
    /\ commands = EmptyBag
    /\ ncommands = 0
    /\ tokens = {}
    /\ interaction = NoInteraction
    /\ reply = NoReply
    /\ qhist = [handed |-> {1}, removed |-> {}]
    /\ users = StoredUsers
    /\ week_kinds = <<>>
    /\ due = NoDue
    /\ runtime = Started
    /\ terminators = EmptyBag
    /\ deleted = {}

InitRestart == InitFresh \/ InitStored

NextRestart ==
    \/ \E p \in InitPrograms : InitStart(p)
    \/ glyfi_init_db
    \/ init_db_main
    \/ AdvanceWeek

SpecRestart == InitRestart /\ [][NextRestart]_vars

\* C32: a step of an initialiser leaves the stored week number as it is;
\* its insert of week 0 takes effect only on the empty current_week table;
\* and no ledger, queue, user or weeks row is altered by initialisation.
C32_RestartKeepsStore ==
    [][inits' # inits =>
          /\ current_week # <<>> => current_week' = current_week
          /\ current_week' # current_week =>
                 current_week = <<>> /\ current_week' = <<0>>
          /\ submissions' = submissions
          /\ prompts' = prompts
          /\ users' = users
          /\ week_kinds' = week_kinds]_vars

\* C32 witness: the bot's initialiser has run to its end on the store that
\* held week 1, a ledger row, a queue entry and a user, and all are there.
C32_Witness ==
    /\ inits["bot"].runs >= 1 /\ inits["bot"].pc = 0
    /\ current_week = <<1>>
    /\ submissions = SetToBag({SubmissionRow(2, 0, Ambigram)})
    /\ prompts = StartQueue
    /\ users = StoredUsers

(***************************************************************************)
(* Teardown: main starts up on the store of an earlier run (the pool is    *)
(* connected, then the framework is set up) while terminate() is called.   *)
(***************************************************************************)

\* the process when main has registered the SIGINT handler: no pool and no
\* framework yet
Launched == [Started EXCEPT !.shards = "none", !.pool = "none"]

\* __glyfi_init_db: __GLYFI_DB_POOL = Some(SqlitePool::connect(..))
main_connect ==
    /\ ~runtime.exited
    /\ runtime.pool = "none"
    /\ runtime' = [runtime EXCEPT !.pool = "open"]
    /\ reply' = NoReply /\ interaction' = NoInteraction
    /\ UNCHANGED <<storeVars, confirms, handlers, reported, last, inits,
                   clock, image_mtime, image_gen, prompts, commands, ncommands,
                   tokens, qhist, users, week_kinds, due, terminators, deleted>>

\* the setup closure of the framework: __GLYFI_FRAMEWORK = Some(..); main
\* reaches it after __glyfi_init_db has returned
main_setup ==
    /\ ~runtime.exited
    /\ runtime.pool # "none"
    /\ runtime.shards = "none"
    /\ runtime' = [runtime EXCEPT !.shards = "up"]
    /\ reply' = NoReply /\ interaction' = NoInteraction
    /\ UNCHANGED <<storeVars, confirms, handlers, reported, last, inits,
                   clock, image_mtime, image_gen, prompts, commands, ncommands,
                   tokens, qhist, users, week_kinds, due, terminators, deleted>>

InitTeardown ==
    /\ tables = AllTables
    /\ cw_trigger = TRUE
    /\ submissions_pk = "composite"
    /\ current_week = <<0>>
    /\ submissions = SetToBag({SubmissionRow(2, 0, Ambigram)})
    /\ confirms = {}
    /\ handlers = EmptyBag
    /\ reported = {}
    /\ last = [m \in MessageIds |-> NoLast]
    /\ inits = NoInits
    /\ clock = 0
    /\ image_mtime = [path \in ImagePaths |-> -1]
    /\ image_gen = [path \in ImagePaths |-> 0]
    /\ prompts = <<>>
    /\ commands = EmptyBag
    /\ ncommands = 0
    /\ tokens = {}
    /\ interaction = NoInteraction
    /\ reply = NoReply
    /\ qhist = [handed |-> {}, removed |-> {}]
    /\ users = [u \in {} |-> 0]
    /\ week_kinds = <<>>
    /\ due = NoDue
    /\ runtime = Launched
    /\ terminators = EmptyBag
    /\ deleted = {}

NextTeardown ==
    \/ main_connect
    \/ main_setup
    \/ \E r \in SubmitReactions : ReactionAdd(r)
    \/ \E hd \in BagToSet(handlers) : add_submission_current_week(hd)
    \/ \E hd \in BagToSet(handlers) : add_submission(hd)
    \/ \E hd \in BagToSet(handlers) : ReactionAddConfirm(hd)
    \/ \E trigger \in TerminateTriggers : terminate(trigger)
    \/ \E t \in BagToSet(terminators) : glyfi_terminate_bot(t)
    \/ \E t \in BagToSet(terminators) : glyfi_fini_db(t)
    \/ \E t \in BagToSet(terminators), dropped \in BOOLEAN : process_exit(t, dropped)

SpecTeardown == InitTeardown /\ [][NextTeardown]_vars

\* the winning terminate call moves from one teardown step to the next
TeardownStep(from, to) ==
    \E t \in BagToSet(terminators) :
        /\ t.pc = from
        /\ terminators' = SetToBag({[t EXCEPT !.pc = to]})

RowReactions == {r \in Reactions :
                    /\ r.emoji = SUBMIT_EMOJI_ID
                    /\ r.message = 2
                    /\ r.user_id \in Users}

InitRows == InitLedger /\ submissions = EmptyBag

NextRows ==
    \/ \E r \in RowReactions : ReactionAdd(r)
    \/ \E hd \in BagToSet(handlers) : remove_reaction(hd)
    \/ \E hd \in BagToSet(handlers) : add_submission_current_week(hd)
    \/ \E hd \in BagToSet(handlers) : add_submission(hd)
    \/ \E hd \in BagToSet(handlers) : ReactionAddConfirm(hd)
    \/ \E r \in RowReactions : ReactionRemove(r)
    \/ \E hd \in BagToSet(handlers) : remove_submission_current_week(hd)
    \/ \E hd \in BagToSet(handlers) : remove_submission(hd)
    \/ \E hd \in BagToSet(handlers) : ReactionRemoveUnconfirm(hd)
    \/ AdvanceWeek

SpecRows == InitRows /\ [][NextRows]_vars

\* the challenge of the channel a message was posted in
ChannelChallenge(m) ==
    IF Messages[m].channel_id = GLYPH_SUBMISSION_CHANNEL_ID THEN Glyph ELSE Ambigram

\* the row has the author and the channel's challenge of its message
Faithful(row) ==
    /\ row.author = Messages[row.message].author
    /\ Messages[row.message].channel_id \in
           {GLYPH_SUBMISSION_CHANNEL_ID, AMBIGRAM_SUBMISSION_CHANNEL_ID}
    /\ row.challenge = ChannelChallenge(row.message)
    /\ row.link = AttachmentUrl(row.message)

\* C34: every ledger row has the author of its message and the challenge of
\* the channel of its message; the row an add inserts carries the week its
\* handler read, a week that was current while the reaction was processed;
\* and a step of add or remove inserts one row or deletes rows, it never
\* changes a row that stays.
C34_RowsFaithful ==
    [][/\ \A row \in BagToSet(submissions') : Faithful(row)
       /\ \A hd \in BagToSet(handlers) :
              (hd.pc = "insert" /\ Steps(hd) /\ submissions' # submissions) =>
                  /\ hd.issued <= hd.week /\ hd.week <= Week
                  /\ submissions' = submissions (+) SetToBag({
                         [message |-> hd.message, week |-> hd.week,
                          challenge |-> ChannelChallenge(hd.message),
                          author |-> Messages[hd.message].author,
                          link |-> AttachmentUrl(hd.message)]})
       /\ (\A hd \in BagToSet(handlers) : ~(hd.pc = "insert" /\ Steps(hd))) =>
              \A row \in BagToSet(submissions') :
                  CopiesIn(row, submissions') <= CopiesIn(row, submissions)]_vars

\* C34 witness: the row of submission 2 was inserted after the week had
\* advanced, with the week its handler had read before, after a reaction of
\* the other user on that submission was turned away.
C34_Witness ==
    /\ \E row \in BagToSet(submissions) : row.message = 2 /\ row.week < Week
    /\ last[2].op = "insert"
    /\ last[2].week < Week
    /\ deleted # {}

=============================================================================
